----------------------------- MODULE MCGateway -----------------------------
(* Small instances of Gateway for TLC: one device, whose events come alone  *)
(* or in batches, good ones and every kind of bad one.                      *)
EXTENDS Gateway, TLC

E(k) == [dev |-> "d", kind |-> k]
Ask(call, via, keyed, kinds) ==
  [call |-> call, via |-> via, keyed |-> keyed, events |-> [i \in 1..Len(kinds) |-> E(kinds[i])]]

CONSTANTS r1, r2, r3

\* r1: a batch with a bad event in the middle; r2: an event alone; r3: what is
\* refused on the way in: a batch over the limit, a call through the gRPC
\* adapter, with and without bad coordinates; or an empty batch.
ManyAsks ==
  r1 :> {Ask("batch", "direct", TRUE, <<"plain", "old", "plain">>)} @@
  r2 :> {Ask("one", "direct", TRUE, <<"plain">>)} @@
  r3 :> {Ask("batch", "direct", TRUE, <<"plain", "plain", "plain", "plain">>),
         Ask("batch", "direct", TRUE, <<>>),
         Ask("batch", "grpc", FALSE, <<"far">>),
         Ask("one", "grpc", FALSE, <<"plain">>)}

\* Only single events, for what happens to messages after they were produced.
OneAsk == [r \in Requests |-> {Ask("one", "direct", TRUE, <<"plain">>)}]
=============================================================================
