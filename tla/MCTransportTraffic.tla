-------------------------- MODULE MCTransportTraffic --------------------------
EXTENDS TransportTraffic, TLC

CONSTANTS a, b, c

\* Messages with and without payload from a to b.
Payloads == [client |-> {a}, link |-> {<<a, b>>}, buffers |-> {1}, sends |-> 4,
             refusing |-> {}]
\* One sender with two receivers.
FanOut == [client |-> {a}, link |-> {<<a, b>>, <<a, c>>}, buffers |-> {}, sends |-> 2,
           refusing |-> {}]
\* Two senders to one receiver, which may refuse a session.
FanIn == [client |-> {a, b}, link |-> {<<a, c>>, <<b, c>>}, buffers |-> {}, sends |-> 1,
          refusing |-> {c}]

PayloadsOrFanOut == {Payloads, FanOut}
OnlyFanIn == {FanIn}
=============================================================================
