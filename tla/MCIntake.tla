------------------------------ MODULE MCIntake ------------------------------
(* MCIntake.cfg: two versions and two approved patterns, so that an older     *)
(* version can stand in the way of a younger one.  MCIntakeRace.cfg: two      *)
(* versions, two overlapping runs and one approved pattern.  The other two    *)
(* configurations follow one version.                                        *)
EXTENDS Intake, TLC

OneVersion == {1}
TwoVersions == {1, 2}
RunSymmetry == Permutations(Runs)

\* Bound of MCIntakeRace.cfg: TLC goes on from a state while the reviewer has raised
\* the rows of all patterns together by two at most, so it sees three such actions.
FewDecisions == Cardinality({d \in Patterns \X (2 .. RowCap) : patterns[d[1]].row >= d[2]}) <= 2
=============================================================================
