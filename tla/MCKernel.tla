------------------------------ MODULE MCKernel ------------------------------
(***************************************************************************)
(* Parts of the kernel that do not act on each other, each by itself in    *)
(* one run: the buffer cache and the disk queue, the console, the keyboard *)
(* and the shared pages. A behaviour is one of one part; the others stay   *)
(* in their initial state.                                                 *)
(***************************************************************************)
EXTENDS Buffers, Console, Keyboard, Shm, TLC

VARIABLE part

vars == <<part, buffersVars, consoleVars, keyboardVars, shmVars>>

Init ==
  /\ BuffersInit /\ ConsoleInit /\ KeyboardInit /\ ShmInit
  /\ part \in {"disk", "console", "keyboard", "shm"} /\ (part # "disk" => medium = "ide")

Next ==
  /\ UNCHANGED part
  /\ \/ part = "disk" /\ BuffersNext /\ UNCHANGED <<consoleVars, keyboardVars, shmVars>>
     \/ part = "console" /\ ConsoleNext /\ UNCHANGED <<buffersVars, keyboardVars, shmVars>>
     \/ part = "keyboard" /\ KeyboardNext /\ UNCHANGED <<buffersVars, consoleVars, shmVars>>
     \/ part = "shm" /\ ShmNext /\ UNCHANGED <<buffersVars, consoleVars, keyboardVars>>

Spec == Init /\ [][Next]_vars
-----------------------------------------------------------------------------
\* Processes that map, unmap, make children and end; sbrk by one page.
ShareCalls == {"shm_get", "shm_rem", "fork", "exit", "wait", "sbrk", "exec"}
PageSteps  == {-2, 2}

\* Blocks, names and frames are interchangeable: no definition tells them apart.
Sym == Permutations(Blocks) \cup Permutations(Names) \cup Permutations(Frames)
=============================================================================
