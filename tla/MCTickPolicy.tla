---------------------------- MODULE MCTickPolicy ----------------------------
(***************************************************************************)
(* Model checking of TickPolicy: two workspaces with one post each.        *)
(***************************************************************************)
EXTENDS TickPolicy

With(on, lease, attempts, base) ==
  [on |-> on, lease |-> lease, attempts |-> attempts, base |-> base]

MCDefaults == With(TRUE, 300000, 3, 1000)
\* The defaults, the longest run under the shortest lease, and switched off.
MCSettings == {MCDefaults, With(TRUE, 60000, 10, 60000), With(FALSE, 300000, 3, 1000)}
MCSpaces == <<"default", "other">>
MCSpaceOf == <<"other", "default">>

ASSUME MCTickAssumption == TickAssumption /\ LeaseAssumption
=============================================================================
