------------------------------- MODULE MCPipe ------------------------------
(* Instances of Pipe for TLC. *)
EXTENDS Pipe

AllCalls == {"pipe", "dup", "close", "fork", "exit", "kill", "read", "write"}

\* A message longer than the pipe.
Words == {<<0, 1, 2>>}
=============================================================================
