---------------------------- MODULE CandidateTree ----------------------------
(***************************************************************************)
(* What a run promises of its candidate: nothing is visible until the       *)
(* starting tree is there in full; it is replaced by the patched tree at     *)
(* most once; and after it was removed it does not come back.               *)
(***************************************************************************)
CONSTANTS Runs, Base, Patched

VARIABLE visible   \* run -> <<a stage>>, or <<"tree", the files>>

Planned == <<"planned">>
Tree(files) == <<"tree", files>>
Patching == <<"patching">>
Removing == <<"removing">>
Gone == <<"gone">>

Init == visible = [r \in Runs |-> Planned]

Turns(r, from, to) == visible[r] = from /\ visible' = [visible EXCEPT ![r] = to]

Provision(r) == Turns(r, Planned, Tree(Base))
Apply(r) == Turns(r, Tree(Base), Patching) \/ Turns(r, Patching, Tree(Patched))
Remove(r) ==
  \/ \E files \in {Base, Patched} : Turns(r, Tree(files), Removing)
  \/ Turns(r, Removing, Gone)

Next == \E r \in Runs : Provision(r) \/ Apply(r) \/ Remove(r)

Spec == Init /\ [][Next]_visible
=============================================================================
