----------------------------- MODULE MCDelivery -----------------------------
EXTENDS Delivery

CONSTANTS u1, t1, t2

\* One user sends /start, asks for access, and sends /start again.
MCUpdates == 1..3
MCStarts == {1, 3}
MCMutating == {2}
MCResends == {2}
MCSender == [u \in MCUpdates |-> u1]

=============================================================================
