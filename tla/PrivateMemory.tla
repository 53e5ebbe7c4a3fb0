--------------------------- MODULE PrivateMemory ---------------------------
(***************************************************************************)
(* What fork, exec and copy-on-write promise to user programs: every live  *)
(* process has memory of its own.  A fork copies it at once, a store       *)
(* changes one page of one process, and nothing else changes anything.     *)
(* Frames, page tables and sharing are not visible at this level.          *)
(***************************************************************************)
CONSTANTS Procs, Pages, ImagePages, Values, ImageValue, NoMem

VARIABLE mem  \* NoMem for a process that is not running, else its pages

\* A freshly loaded image; the stack page holds whatever was in its frame.
Loaded(m) == m \in [Pages -> Values] /\ \A pg \in ImagePages : m[pg] = ImageValue

PMInit == mem = [p \in Procs |-> NoMem]

PMStart(p) == /\ mem[p] = NoMem
              /\ \E m \in [Pages -> Values] : Loaded(m) /\ mem' = [mem EXCEPT ![p] = m]

PMFork(p, q) == /\ mem[p] # NoMem /\ mem[q] = NoMem
                /\ mem' = [mem EXCEPT ![q] = mem[p]]

PMStore(p, pg, v) == /\ mem[p] # NoMem
                     /\ mem' = [mem EXCEPT ![p][pg] = v]

PMExec(p) == /\ mem[p] # NoMem
             /\ \E m \in [Pages -> Values] : Loaded(m) /\ mem' = [mem EXCEPT ![p] = m]

PMExit(p) == mem[p] # NoMem /\ mem' = [mem EXCEPT ![p] = NoMem]

PMNext == \E p \in Procs :
             \/ PMStart(p) \/ PMExec(p) \/ PMExit(p)
             \/ \E q \in Procs : PMFork(p, q)
             \/ \E pg \in Pages, v \in Values : PMStore(p, pg, v)

PMSpec == PMInit /\ [][PMNext]_mem
=============================================================================
