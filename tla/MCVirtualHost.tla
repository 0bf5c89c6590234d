--------------------------- MODULE MCVirtualHost ---------------------------
(* TLC instance of VirtualHost: the default exchange and one of another     *)
(* type, two queues, the first with or without a dead letter exchange,      *)
(* which is the second exchange, under the name of the second queue (or, in *)
(* a run of its own, under another routing key).                            *)
EXTENDS VirtualHost
q1 == <<"q1">>
q2 == <<"q2">>
MCExchange == {"", "x"}
MCDefaultEx == ""
MCQueue == {q1, q2}
MCKey == {<<>>, q1, q2, <<"dead">>}
MCClientId == {1}   \* which is what generate_id makes first
MCExchangeRequests == {<<"", "DIRECT">>, <<"x", "FANOUT">>, <<"x", "HEADERS">>}
MCQueueRequests == {<<q1, TRUE>>, <<q2, FALSE>>}
MCDlqRequests == {<<q1, TRUE, "x", q2>>}
MCDlqRequestsOther == {<<q1, TRUE, "x", <<"dead">>>>}
MCBindRequests == {<<"x", q1, q2>>, <<"x", q2, q2>>}
MCProps(n, i, k) == [null |-> n, id |-> i, rkey |-> k]
MCPublications ==
  {<<"", MCProps(FALSE, NoId, q1)>>, <<"x", MCProps(TRUE, NoId, <<>>)>>,
   <<"x", MCProps(FALSE, 1, q2)>>, <<"x", MCProps(FALSE, NoId, <<>>)>>}
===========================================================================
