------------------------------ MODULE Routable ------------------------------
(***************************************************************************)
(* Routable::check(): wait until the host name of a remote target can be   *)
(* resolved and one of its addresses has a route. The network is set up in *)
(* parallel by other programs: names start to resolve, routes come and go, *)
(* and the kernel announces every change of the routing table on the       *)
(* netlink sockets that have subscribed.                                   *)
(***************************************************************************)
EXTENDS Naturals, Sequences

CONSTANTS
  Addrs,       \* how many addresses the name resolves to
  Timeout,     \* KDUMP_NET_TIMEOUT, in ticks of the clock
  Kinds,       \* which announcements the kernel sends
  MaxChanges   \* the network settles after that many changes

ASSUME RoutableAssumption ==
  /\ Addrs \in Nat \ {0} /\ Timeout \in Nat /\ MaxChanges \in Nat
  /\ Kinds \subseteq {"route", "cloned", "long"}

VARIABLES
  rpc,         \* where check() is
  addr,        \* the address that hasRoute() asks for next
  left,        \* ticks to the end of the current wait
  tried,       \* history: ticks spent on a name that does not resolve
  subscribed,  \* the socket that waits for changes exists
  skipped,     \* the current wait has passed over an announcement
  queue,       \* announcements it has not delivered
  resolvable,  \* the name service can answer
  routes,      \* the addresses that have a route
  quiet,       \* ticks since the last announced change
  changes      \* changes so far

checker == <<rpc, addr, left, tried, subscribed, skipped>>
network == <<resolvable, routes, quiet, changes>>
rvars   == <<checker, queue, network>>

Checked == {"yes", "no", "throw"}
Over    == Checked \union {"gone"}

RInit ==
  /\ rpc = "idle" /\ addr = 1 /\ left = 0 /\ tried = 0
  /\ subscribed = FALSE /\ skipped = FALSE /\ queue = <<>>
  /\ resolvable \in BOOLEAN /\ routes \in SUBSET (1..Addrs)
  /\ quiet = 0 /\ changes = 0

-----------------------------------------------------------------------------
(* check().                                                                *)

Check ==
  /\ rpc = "idle"
  /\ rpc' = "resolve" /\ left' = Timeout
  /\ UNCHANGED <<addr, tried, subscribed, skipped, queue, network>>

\* A name that is not found (EAI_NONAME, EAI_NODATA), a server that fails
\* (EAI_FAIL) and one that does not answer (EAI_AGAIN) are all worth another
\* attempt, after a second and until the time is up; every other error throws.
Resolve ==
  /\ rpc = "resolve"
  /\ \/ resolvable /\ rpc' = "subscribe" /\ tried' = 0
     \/ ~resolvable /\ rpc' = (IF left = 0 THEN "no" ELSE "sleep") /\ UNCHANGED tried
     \/ rpc' = "throw" /\ UNCHANGED tried
  /\ UNCHANGED <<addr, left, subscribed, skipped, queue, network>>

\* The subscription is older than the first question. A socket that cannot be
\* had is an exception.
Subscribe ==
  /\ rpc = "subscribe"
  /\ \/ rpc' = "ask" /\ subscribed' = TRUE /\ queue' = <<>> /\ addr' = 1
     \/ rpc' = "throw" /\ UNCHANGED <<subscribed, queue, addr>>
  /\ UNCHANGED <<left, tried, skipped, network>>

\* A socket, a request or a reply that cannot be used (talk(), checkRoute(),
\* parseAttrs()) is an exception, whatever the address.
AskFails == rpc' = "throw" /\ UNCHANGED <<addr, left, queue>>

\* altered: the socket is opened for the wait only
AskUnsubscribed ==
  /\ rpc = "ask"
  /\ \/ addr \in routes /\ rpc' = "yes" /\ UNCHANGED <<addr, left, queue>>
     \/ addr \notin routes /\ addr < Addrs /\ addr' = addr + 1 /\ UNCHANGED <<rpc, left, queue>>
     \/ /\ addr \notin routes /\ addr = Addrs
        /\ rpc' = "wait" /\ left' = Timeout /\ queue' = <<>> /\ UNCHANGED addr
     \/ AskFails
  /\ skipped' = FALSE
  /\ UNCHANGED <<tried, subscribed, network>>

\* altered: one end for all the waits
AskOneDeadline ==
  /\ rpc = "ask"
  /\ \/ addr \in routes /\ rpc' = "yes" /\ UNCHANGED <<addr, left, queue>>
     \/ addr \notin routes /\ addr < Addrs /\ addr' = addr + 1 /\ UNCHANGED <<rpc, left, queue>>
     \/ addr \notin routes /\ addr = Addrs /\ rpc' = "wait" /\ UNCHANGED <<addr, left, queue>>
     \/ AskFails
  /\ skipped' = FALSE
  /\ UNCHANGED <<tried, subscribed, network>>

\* hasRoute() asks the kernel for one address after the other, then receive()
\* sets a new end for its wait.
Ask ==
  /\ rpc = "ask"
  /\ \/ addr \in routes /\ rpc' = "yes" /\ UNCHANGED <<addr, left, queue>>
     \/ addr \notin routes /\ addr < Addrs /\ addr' = addr + 1 /\ UNCHANGED <<rpc, left, queue>>
     \/ /\ addr \notin routes /\ addr = Addrs
        /\ rpc' = "wait" /\ left' = Timeout /\ UNCHANGED <<addr, queue>>
     \/ AskFails
  /\ skipped' = FALSE
  /\ UNCHANGED <<tried, subscribed, network>>

\* One announcement: a route ends the wait, a cached (cloned) one does not, and
\* one that does not fit into the buffer is an error.
Receive ==
  /\ rpc = "wait" /\ queue # <<>>
  /\ queue' = Tail(queue)
  /\ CASE Head(queue) = "route"  -> rpc' = "ask" /\ addr' = 1
       [] Head(queue) = "cloned" -> UNCHANGED <<rpc, addr>>
       [] Head(queue) = "long"   -> rpc' = "throw" /\ UNCHANGED addr
  /\ skipped' = (Head(queue) = "cloned")
  /\ UNCHANGED <<left, tried, subscribed, network>>

\* poll() returns when the time is up and nothing is there; after it has passed
\* over an announcement, receive() looks at the clock before it polls.
TimeUp ==
  /\ rpc = "wait" /\ left = 0
  /\ queue = <<>> \/ skipped
  /\ rpc' = "no"
  /\ UNCHANGED <<addr, left, tried, subscribed, skipped, queue, network>>

\* The caller destroys the Routable object; the network is of no further
\* interest.
Destroy ==
  /\ rpc \in Checked
  /\ rpc' = "gone" /\ addr' = 1 /\ left' = 0 /\ tried' = 0 /\ subscribed' = FALSE
  /\ skipped' = FALSE /\ queue' = <<>>
  /\ resolvable' = FALSE /\ routes' = {} /\ quiet' = 0 /\ changes' = 0

CheckStep == Check \/ Resolve \/ Subscribe \/ Ask \/ Receive \/ TimeUp

-----------------------------------------------------------------------------
(* The clock and the network.                                              *)

\* A tick also ends the sleep between two attempts to resolve the name.
Tick ==
  /\ rpc \notin Over \union {"idle"}
  /\ left > 0 \/ quiet < Timeout
  /\ left' = IF left > 0 THEN left - 1 ELSE 0
  /\ quiet' = IF quiet < Timeout THEN quiet + 1 ELSE quiet
  /\ tried' = IF rpc \in {"resolve", "sleep"} /\ tried < Timeout THEN tried + 1 ELSE tried
  /\ rpc' = IF rpc = "sleep" THEN "resolve" ELSE rpc
  /\ UNCHANGED <<addr, subscribed, skipped, queue, resolvable, routes, changes>>

NameService ==
  /\ rpc \notin Over /\ changes < MaxChanges
  /\ resolvable' = ~resolvable /\ changes' = changes + 1
  /\ UNCHANGED <<checker, queue, routes, quiet>>

\* The routing table changes and the kernel announces it.
RouteChange ==
  /\ rpc \notin Over /\ changes < MaxChanges
  /\ \E rs \in SUBSET (1..Addrs), kind \in Kinds :
       /\ kind = "cloned" => rs = routes
       /\ routes' = rs
       /\ queue' = IF subscribed THEN Append(queue, kind) ELSE queue
       /\ quiet' = IF kind = "cloned" THEN quiet ELSE 0
  /\ changes' = changes + 1
  /\ UNCHANGED <<checker, resolvable>>

Environment == NameService \/ RouteChange

RNext == CheckStep \/ Tick \/ Environment

-----------------------------------------------------------------------------
(* Properties.                                                             *)

StopsWaiting == rpc = "wait" /\ rpc' = "no"
GivesUp      == rpc \notin Over /\ rpc' = "no"

\* check() does not miss a route that came up while it asked for the other
\* addresses, or before it waited: it stops waiting only if there is no route,
\* or if the announcement is there and receive(), busy with another one, looked
\* at the clock first.
NoRouteMissed ==
  [][StopsWaiting => routes = {} \/ queue # <<>>]_rvars

\* "Kdumptool gives up waiting for a working network setup when it does not
\* change for the given number of seconds" (sysconfig.kdump.in:312-313). So it
\* is, with two exceptions. An announcement is in the socket, and receive() has
\* looked at the clock first. Or the name has not resolved for the whole time:
\* that limit is counted from the start of check() whatever changes meanwhile
\* (routable.cc:497-507), which the text does not say.
GivesUpInTime ==
  [][GivesUp => \/ quiet >= Timeout
                \/ rpc = "wait" /\ queue # <<>>
                \/ ~resolvable /\ tried >= Timeout]_rvars
=============================================================================
