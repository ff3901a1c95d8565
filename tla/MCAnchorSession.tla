--------------------------- MODULE MCAnchorSession ---------------------------
(***************************************************************************)
(* Comments to model-check AnchorSession with.  Each set holds the shapes  *)
(* that take different paths through the hooks.                            *)
(***************************************************************************)
EXTENDS AnchorSession

On(k)  == [kind |-> k, enable |-> TRUE]
Off(k) == [kind |-> k, enable |-> FALSE]
Comment(es, send, terminate) == [anchors |-> es, send |-> send, terminate |-> terminate]

Time    == Comment(<<On(Exec)>>, TRUE, FALSE)
Explain == Comment(<<On(Subq)>>, TRUE, TRUE)
Replace == Comment(<<On(Card)>>, FALSE, FALSE)
Silent  == Comment(<<On(Card)>>, FALSE, TRUE)
Tune    == Comment(<<On(Card), On(Subq), On(Exec)>>, TRUE, TRUE)
Fetch   == Comment(<<On(Subq), On(Record)>>, TRUE, FALSE)
Both    == Comment(<<On(Record), On(Exec), On(Subq)>>, TRUE, FALSE)
Empty   == Comment(<<>>, TRUE, TRUE)
Unknown == Comment(<<On(Exec), On("UNKNOWN_ANCHOR"), On(Subq)>>, TRUE, FALSE)
Hints   == Comment(<<On("HintAnchorHandler"), On(Exec)>>, TRUE, FALSE)
Disabled == Comment(<<On(Exec), Off(Record)>>, TRUE, FALSE)
Twice   == Comment(<<On(Subq), Off(Subq)>>, TRUE, TRUE)

AllRequests == {Time, Explain, Replace, Silent, Tune, Fetch, Both, Empty, Unknown,
                Hints, Disabled, Twice}
NestedOnes == {Explain, Replace}
=============================================================================
