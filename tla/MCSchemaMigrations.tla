------------------------ MODULE MCSchemaMigrations -------------------------
(* The revisions of the schema, whole and cut, evaluated one by one.       *)
EXTENDS Naturals

(* Every downgrade undoes its upgrade ...                                   *)
Schema == INSTANCE SchemaMigrations
Up(n)   == Schema!Revisions[n].up
Down(n) == Schema!Revisions[n].down
Whole == [n \in 0..Schema!Latest |-> Schema!SchemaAt(n)]
ASSUME DowngradesUndo ==
    \A n \in 1..Schema!Latest :
        LET back == Schema!RunAll(Down(n), Whole[n])
        IN back.status = "running" /\ back.schema = Whole[n - 1]

(* ... and a revision cut after any of its statements and run again ends in *)
(* the same schema if it is guarded.  One that is not is refused for ever,  *)
(* but never recorded; s2n0k7f1j9e0 alone is recorded without its index.    *)
Again(n, left) ==
    LET cut == Schema!RunUpTo(left, Up(n), Whole[n - 1])
        again == Schema!RunAll(Up(n), cut.schema)
    IN CASE again.status = "refused" -> "refused"
         [] again.schema = Whole[n] -> "whole"
         [] OTHER -> "short"
Outcomes(n) == {Again(n, left) : left \in 0..25}
ASSUME CutRevisions ==
    \A n \in 1..Schema!Latest :
        CASE n \in {9} \cup (14..19) \cup (21..24) -> Outcomes(n) = {"whole"}
          [] n = 20 -> Outcomes(n) = {"whole", "short"}
          [] OTHER -> Outcomes(n) = {"whole", "refused"}

(* The rows filled in: after the two statements of t3o1l8g2i608, the first  *)
(* run any number of times, each run is in a workspace - its own, where it  *)
(* had one, else one of its owner - and a second pass changes nothing; the  *)
(* same of the members w6r4o1j5l931 adds.                                   *)
Named(o, name) == [id |-> <<o, name>>, owner |-> o, name |-> name]
MCBases ==
    {b \in [runs : [1..2 -> [owner : {"alice", "bob"},
                            workspace : {Schema!NoWorkspace, <<"alice", "Default">>,
                                         <<"alice", "shop">>}]],
            workspaces : SUBSET {Named("alice", "Default"), Named("alice", "shop"),
                                 Named("bob", "shop")},
            members : SUBSET {[workspace |-> <<"alice", "shop">>, user |-> "alice", role |-> "owner"],
                              [workspace |-> <<"alice", "shop">>, user |-> "bob", role |-> "member"]}] :
        \A r \in 1..2 : b.runs[r].workspace \in {Schema!NoWorkspace} \cup {w.id : w \in b.workspaces}}
ASSUME BackfillsSettle ==
    \A b \in MCBases :
        LET once == Schema!AssignRuns(Schema!DefaultWorkspaces(Schema!DefaultWorkspaces(b)))
            full == Schema!OwnersAsMembers(once)
        IN /\ Schema!AssignRuns(Schema!DefaultWorkspaces(once)) = once
           /\ Schema!OwnersAsMembers(full) = full
           /\ \A r \in 1..2 :
                 IF b.runs[r].workspace # Schema!NoWorkspace THEN once.runs[r] = b.runs[r]
                 ELSE \E w \in once.workspaces :
                        w.id = once.runs[r].workspace /\ w.owner = b.runs[r].owner
           /\ \A w \in full.workspaces :
                 \E m \in full.members : m.workspace = w.id /\ m.user = w.owner
           /\ b.members \subseteq full.members

(* The noise filter goes by name: an index made unique under its own name   *)
(* is cancelled with the noise.                                            *)
ASSUME NoiseGoesByName ==
    \A name \in {"ix", "uq"} :
        Schema!IsIndexNoise({[kind |-> "drop index", index |-> "ix", unique |-> FALSE],
                             [kind |-> "create index", index |-> name, unique |-> TRUE]})
            = (name = "ix")
=============================================================================
