--------------------------- MODULE MCQueryExchange ---------------------------
(***************************************************************************)
(* Small instances of QueryExchange. The buffer just holds a question in   *)
(* the a2s format.                                                         *)
(***************************************************************************)
EXTENDS QueryExchange

Letters(n) == [i \in 1 .. n |-> 65]
MCTexts == {Letters(255), Letters(256), <<65, 0, 66>>}
MCRandoms == {0, 256, 67305985}
MCCounts == {-1, 300}
MCMetricValues == {1067316150}

(* Nothing, which the padding makes a request for a challenge; a question  *)
(* of version 3; one for the metrics alone; one that breaks off; noise.    *)
MCStrays == {<<>>, <<1, 0, 0, 1, 0, 0, 3, 17>>, <<1, 0, 0, 1, 0, 0, 2, 16>>,
             <<255, 255, 255, 255, 84, 83, 83, 83, 0, 1>>, <<2, 2>>}
=============================================================================
