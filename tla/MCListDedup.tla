----------------------------- MODULE MCListDedup -----------------------------
(***************************************************************************)
(* Values of the constants of ListDedup for TLC: contents are words, among *)
(* them one that is also the number of a chunk.                            *)
(***************************************************************************)
EXTENDS ListInvariants

ThreeVals == {1, 7, 8}

MCHash(v) == <<v>>
MCNoDigest == <<>>

\* The contents there is a trace of.
Seen ==
  UNION {Range(history[k]) : k \in DOMAIN history}
    \cup {v \in Vals : Hash(v) \in Range(list) \cup DOMAIN first_ocur}

\* Contents that are no number of a chunk are interchangeable: the next one is used
\* only when those before it have been.
InOrder(d) ==
  \A c \in Chunks : \A v \in Vals \ Chunks :
    v < d[c] => v \in Seen \cup {d[b] : b \in 0 .. c - 1}

\* Bound: a third content is new in the second checkpoint, and where there is one no
\* third checkpoint is taken.
TwoButInSecond(d) ==
  /\ current_id = 0 => Range(d) \subseteq {1, 7}
  /\ current_id >= 2 => Seen \cup Range(d) \subseteq {1, 7}

MCCall ==
  \/ \E d \in {e \in Data : InOrder(e) /\ TwoButInSecond(e)}, make_baseline \in BOOLEAN :
       Checkpoint(d, make_baseline)
  \/ \E k \in 0 .. Len(incr_chkpts) - 1 : RestartFromViews(k) \/ RestartFromFiles(k)
  \/ Release

MCSpec == Init /\ [][Progress \/ MCCall]_vars
==============================================================================
