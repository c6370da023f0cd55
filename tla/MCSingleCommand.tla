--------------------------- MODULE MCSingleCommand ---------------------------
(***************************************************************************)
(* SingleCommand with the numbers where the conversions change course, up  *)
(* to the widest of each type, and addresses of eight digits in base 4.    *)
(***************************************************************************)
EXTENDS SingleCommand

\* Dialog and hash are read while their dialog is owed an answer, a reply where it
\* hands something out.
View ==
  <<currentInstruction, owed, screen, app, clean,
    IF owed THEN <<dialog, IF screen = "sign" THEN txHash ELSE <<>> >> ELSE <<>>,
    IF reply.kind \in {"keys", "approved"} THEN reply ELSE <<>> >>

MCNumbers8 == {<<0>>, <<2, 5, 5>>}
MCNumbers32 ==
  {<<0>>, <<5>>, <<5, 0>>, <<1, 2, 3, 4>>, <<9, 9, 9, 9, 9>>, <<1, 0, 0, 0, 0, 0>>, <<1, 0, 0, 0, 0, 1>>,
   <<4, 2, 9, 4, 9, 6, 7, 2, 9, 5>>}
MCNumbers64 ==
  {<<0>>, <<7>>, <<1, 2, 0, 0, 0, 0>>, <<1, 0, 0, 0, 0, 0, 0>>, <<1, 0, 0, 0, 0, 0, 1>>,
   <<1, 0, 0, 0, 5, 0, 0, 0, 0, 0>>, <<1, 8, 4, 4, 6, 7, 4, 4, 0, 7, 3, 7, 0, 9, 5, 5, 1, 6, 1, 5>>}
MCRatios == MCNumbers64 \X {<<7>>, <<1, 8, 4, 4, 6, 7, 4, 4, 0, 7, 3, 7, 0, 9, 5, 5, 1, 6, 1, 5>>}
MCAddresses == [1..8 -> {0, 3}]
MCPathIndex ==
  [n \in {<<5>>, <<2, 1, 4, 7, 4, 8, 3, 6, 5, 3>>} |-> <<5>>]
MCCounters == {<<0>>, <<1, 2>>, <<1, 2, 3>>}
=============================================================================
