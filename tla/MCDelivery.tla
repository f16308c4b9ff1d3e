----------------------------- MODULE MCDelivery -----------------------------
EXTENDS Delivery

Accept   == [c \in Commands |-> IF c = "DATA" THEN {"3"} ELSE {"2"}]
Refuse   == [Accept EXCEPT !["MAIL"] = {"2", "4"},
                           !["RCPT"] = {"2", "251", "4", "5"},
                           !["DATA"] = {"3", "5"},
                           !["DOT"]  = {"2", "4", "odd"}]

\* A remote end that accepts everything, and one that may refuse the first mail.
Accepts == <<Accept, Accept>>
Refuses == <<Refuse, Accept>>

\* The first mail has two recipients and two hosts, the second one of each.
TwoOne == <<2, 1>>

\* Of two sockets: relaying with and without pooling, and LMTP without.
Cfg(pooling, lmtp) == [pooling |-> pooling, lmtp |-> lmtp, max |-> 2]
Relays == {Cfg(TRUE, FALSE), Cfg(FALSE, FALSE), Cfg(FALSE, TRUE)}
Pooling == {Cfg(TRUE, FALSE)}
=============================================================================
