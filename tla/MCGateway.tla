----------------------------- MODULE MCGateway -----------------------------
(***************************************************************************)
(* An instance of Gateway with loads for accounts, for the life of a       *)
(* session, for all other routes and for two users after one ticket.       *)
(***************************************************************************)
EXTENDS Gateway

CONSTANTS u1, u2, b1, b2, s1, s2, t1, o1, p1

Want(route, bodies) == {[route |-> route, body |-> body] : body \in bodies}

OneSignedIn == {[browser |-> b1, user |-> u1, token |-> s1]}

TwoSignedIn == OneSignedIn \cup {[browser |-> b2, user |-> u2, token |-> s2]}

OneOnSale == {[id |-> t1, price |-> p1, userId |-> u1]}

\* Every route of accounts and sessions, with bodies that the gateway, identity
\* or neither refuses.
Accounts ==
    [wanted |-> Want("signUp", [name : {"name", "blank"}, email : {u1}, password : {"right"}]
                                 \cup [name : {"empty"}, email : {"malformed"}, password : {"short"}])
                  \cup Want("signIn", [email : {u1}, password : {"right", "wrong"}]
                                         \cup [email : {u1}, password : {"right"}, extra : {"x"}])
                  \cup Want("signOut", {<<>>}) \cup Want("currentUser", {<<>>})
                  \cup Want("verifyEmail", [token : {u1, "forged", ""}]),
     browsers |-> {b1}, requests |-> 1, ticks |-> 1, signedIn |-> {}, onSale |-> {}]

\* Two requests at a time of one user: sessions begin, end and are used.
Sessions ==
    [wanted |-> Want("signIn", [email : {u1}, password : {"right"}])
                  \cup Want("signOut", {<<>>}) \cup Want("listOrders", {<<>>}),
     browsers |-> {b1}, requests |-> 2, ticks |-> 1, signedIn |-> OneSignedIn, onSale |-> {}]

\* Every other route, likewise.
Resources ==
    [wanted |-> Want("createOrder", [ticketId : {t1, "malformed"}])
                  \cup Want("cancelOrder", [id : {o1, "malformed"}])
                  \cup Want("getOrder", [id : {o1, "malformed"}]) \cup Want("listOrders", {<<>>})
                  \cup Want("createPayment", [orderId : {o1, "malformed"}])
                  \cup Want("createTicket", [title : {"title", "blank"}, price : {p1}]
                                              \cup [title : {"empty"}, price : {"zero"}])
                  \cup Want("updateTicket", [id : {t1, "malformed"}, title : {"title"},
                                              price : {p1, "excess"}])
                  \cup Want("getTicket", [id : {t1, "malformed"}]) \cup Want("listTickets", {<<>>}),
     browsers |-> {b1}, requests |-> 1, ticks |-> 0, signedIn |-> OneSignedIn, onSale |-> {}]

\* Two users want the same ticket at the same time.
Buyers ==
    [wanted |-> Want("createOrder", [ticketId : {t1}]),
     browsers |-> {b1, b2}, requests |-> 2, ticks |-> 0, signedIn |-> TwoSignedIn,
     onSale |-> OneOnSale]

\* They pay for it, also for the order of the other.
Payers ==
    [Buyers EXCEPT !.wanted = @ \cup Want("createPayment", [orderId : {o1}]), !.requests = 1]

MCLoads == {Accounts, Sessions, Resources, Buyers, Payers}

Symmetry == Permutations(Calls) \cup Permutations(Requests)
=============================================================================
