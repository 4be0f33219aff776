---------------------------- MODULE MCRunQueue ----------------------------
EXTENDS RunQueue

Every(n) == [kind |-> "every", every |-> n, phase |-> 0]
Cron(minutes) == [kind |-> "cron", fires |-> minutes]

P(stream, clock, replace) == [stream |-> stream, clock |-> clock, replace |-> replace]
\* One pipeline: two streams on two clocks, and its removal.
OnePlans == {<<P("s1", Every(2), TRUE)>>, <<P("s2", Cron({3}), FALSE)>>, <<None>>}

\* Two pipelines of the batch lane, the first one's stream changing.
LanePlans == {<<P(s, Cron({1}), TRUE), P("s1", Cron({1}), FALSE)>> : s \in Streams}

\* One pipeline that replaces its entities, its stream changing.
RewritePlans == {<<P(s, Cron({1}), TRUE)>> : s \in Streams}

\* One pipeline of the short lane that never changes.
PolledPlans == {<<P("s1", Every(1), FALSE)>>}

SmallBackoff == <<1, 1>>
=============================================================================
