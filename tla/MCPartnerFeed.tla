--------------------------- MODULE MCPartnerFeed ----------------------------
(* Instance of PartnerFeed for TLC.                                        *)
EXTENDS PartnerFeed, TLC

CONSTANTS ann, zoe, w1, w2, p

MCSubjects == {ann, zoe}
MCMembers  == {ann}
MCWorkers  == {w1, w2}
MCPlaces   == {p}
MCBuilds   == {[kind |-> "build", subject |-> ann, window |-> 1]}

Event(id, subject, kind, place, at) ==
  [id |-> id, subject |-> subject, kind |-> kind, place |-> place, at |-> at]

\* Two partners use the id "b" for different events.
MCEvents ==
  { Event("a", ann, "late", NoPlace, -1),
    Event("b", ann, "swap", NoPlace, 0),
    Event("b", zoe, "location", p, 0) }

\* Every count of ann's row has something to count, and something of zoe's, of
\* another day or under a used id that it must leave out.
MCHistory ==
  { Event("a", ann, "late", NoPlace, -1),
    Event("b", ann, "swap", NoPlace, 0),
    Event("b", zoe, "late", NoPlace, 0),
    Event("c", ann, "location", p, 0),
    Event("d", ann, "location", NoPlace, 1) }

\* One thread delivers and the other builds.
MCBuildSpec ==
  Init /\ [][Next /\ ask'[w1] \notin Builds /\ ask'[w2] \notin Deliveries]_vars

=============================================================================
