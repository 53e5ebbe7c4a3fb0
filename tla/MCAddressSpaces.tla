-------------------------- MODULE MCAddressSpaces --------------------------
(* Instances of AddressSpaces for TLC.                                     *)
EXTENDS AddressSpaces, TLC

CONSTANTS p1, p2, p3, v0, v1

ThreeProcs == {p1, p2, p3}
TwoValues == {v0, v1}

\* Which process is which does not matter.
Symmetry == Permutations(Procs)

\* Neither does which frame is which.  A frame is described by all that refers
\* to it and by its own state; two states with the same view are equal up to a
\* renaming of frames.  The allocator takes the lowest free frame, but free
\* frames differ in nothing but their number, and no property mentions numbers.
Described(f) ==
    <<{m \in Procs \X Pages : pte[m[1]][m[2]].f = f},
      {p \in Procs : dir[p] = f}, {p \in Procs : table[p] = f},
      {p \in Procs : fbTable[p] = f}, f = kfb, f \in used, refs[f], data[f]>>

UpToFrameNames ==
    LET described == [f \in Frames |-> Described(f)]
    IN <<[d \in {described[f] : f \in Frames} |->
             Cardinality({f \in Frames : described[f] = d})],
         [p \in Procs |-> [pg \in Pages |-> <<pte[p][pg].rw, pte[p][pg].cow>>]],
         pstate, hasKfb, fault>>
=============================================================================
