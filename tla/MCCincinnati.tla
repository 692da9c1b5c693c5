---------------------------- MODULE MCCincinnati ----------------------------
(* Constants of the model-checking runs of Cincinnati.                      *)
EXTENDS Cincinnati

MCNode(payload, age, defect, reason) ==
  [payload |-> payload, age |-> age, defect |-> defect, deadend |-> reason]

(* The history of one stream: the server changes edges, dead-ends and the   *)
(* releases it knows of, and their order in the graph. The age of a release *)
(* is its own; the two newest have the same.                                *)
MCRelease(payload, defect, reason) ==
  MCNode(payload, IF payload = 1 THEN 1 ELSE 2, defect, reason)
History(r) ==
  {<<MCRelease(1, "none", r), MCRelease(2, "none", r), MCRelease(3, "none", NoReason)>>,
   <<MCRelease(3, "none", NoReason), MCRelease(1, "no_age", r)>>,
   <<MCRelease(2, "none", r), MCRelease(1, "none", r), MCRelease(3, "no_scheme", r)>>}

(* Edges to newer and to older releases, in a circle, and out of range.     *)
StreamGraph ==
  [nodes : UNION {History(r) : r \in Reasons \union {NoReason}},
   edges : {{}, {<<0, 1>>, <<0, 2>>, <<1, 2>>}, {<<0, 1>>, <<1, 0>>},
            {<<0, 1>>, <<0, 3>>}}]
=============================================================================
