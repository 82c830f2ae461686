------------------------------- MODULE Views --------------------------------
(***************************************************************************)
(* What the panel shows of its rows and nodes: the subscription page       *)
(* (internal/api/subpage.go), a customer's usage, a node's details and the *)
(* inbounds a customer must replicate.  These handlers write nothing; each *)
(* is an action that answers one request.  A page may be loaded again      *)
(* later in the same period.                                               *)
(*                                                                         *)
(* Integers have a width here: the percentage multiplies before it         *)
(* divides.                                                                *)
(***************************************************************************)
EXTENDS Threshold, Sequences, FiniteSetsExt, Functions

CONSTANTS
  MaxInt,     \* the largest integer; the code's is 2^63 - 1
  Day,        \* seconds in a day; the code's is 86400
  Times,      \* instants a page may be loaded at
  Ends,       \* when a subscription may end
  Bytes,      \* used bytes
  Quotas,     \* quotas: createPlan and topupQuota take positive ones only
  Subs,       \* a customer's subscriptions
  Tags,       \* the inbounds a config may list
  Certs       \* the certificates nodes present

ASSUME WidthAssumption == MaxInt \in Nat /\ Day \in Nat \ {0}
ASSUME RowsAssumption == Quotas \subseteq 1 .. MaxInt /\ Bytes \subseteq 0 .. MaxInt
\* A plan lasts a day at least.
ASSUME InstantsAssumption == Times \subseteq Nat /\ Ends \subseteq Nat \ {0}
ASSUME CustomerAssumption == IsFiniteSet(Subs)
\* A certificate is a document, and there is always another one.
ASSUME CertsAssumption == "" \notin Certs /\ \A c \in Certs : Certs # {c}

VARIABLE answer

Statuses == {"active", "suspended", "expired"}

Nothing == [kind |-> "none"]

-----------------------------------------------------------------------------
(* Percentages. *)

\* Two's complement.
Wrapped(x) == ((x + MaxInt + 1) % (2 * (MaxInt + 1))) - (MaxInt + 1)

\* Integer division rounds towards zero.
Quotient(a, b) == IF a < 0 THEN -((-a) \div b) ELSE a \div b

Percent(used, quota) == Quotient(Wrapped(used * 100), quota)

\* Slip: divides before it multiplies.
DividedFirst(used, quota) == LevelOf(Wrapped((used \div quota) * 100))

\* thresholdLevel as the machine computes it, for a positive quota.
LevelComputed(used, quota) == LevelOf(Percent(used, quota))

\* Slip: rounds up.
BarRounded(used, quota) == Min({Percent(used, quota) + 1, 100})

\* The bar of the page.
Bar(used, quota) == Min({Percent(used, quota), 100})

-----------------------------------------------------------------------------
(* The subscription page. *)

Rows == [status : Statuses, quota : Quotas, used : Bytes, end : Ends]

\* Slip: a subscription is not over yet at its end.
ExpiredAfter(rw, now) == rw.end > 0 /\ now > rw.end

PastEnd(rw, now) == rw.end > 0 /\ now >= rw.end

DaysLeft(rw, now) == IF rw.end > now THEN (rw.end - now) \div Day ELSE 0

\* loadSubInfoByToken, and the numbers subPage adds to it.
PageOf(rw, now) ==
  [now    |-> now,
   row    |-> rw,
   status |-> IF PastEnd(rw, now) THEN "expired" ELSE rw.status,
   remain |-> Max({rw.quota - rw.used, 0}),
   days   |-> DaysLeft(rw, now),
   bar    |-> Bar(rw.used, rw.quota),
   level  |-> LevelComputed(rw.used, rw.quota)]

SubPage ==
  /\ answer = Nothing
  /\ \E rw \in Rows, now \in Times : answer' = [kind |-> "page", page |-> PageOf(rw, now)]

\* The same page, later in the period: the collector may have stored any status, and
\* any number of bytes, more as a rule, but fewer when a poll from before a renewal
\* was written after it, or when a renewal was refused after the node's ResetPeriod.
ReloadPage ==
  /\ answer.kind = "page"
  /\ \E used \in Bytes, status \in Statuses, now \in Times :
       /\ now >= answer.page.now
       /\ LET rw == [answer.page.row EXCEPT !.used = used, !.status = status] IN
            answer' = [kind |-> "reload", before |-> answer.page, page |-> PageOf(rw, now)]

-----------------------------------------------------------------------------
(* A customer's usage. *)

Accounts == [quota : Quotas, used : Bytes]

Total(accounts, column) == SumFunction([s \in DOMAIN accounts |-> accounts[s][column]])

\* Slip: adds up the subscriptions' own overruns.
OverageOfEach(accounts) ==
  SumFunction([s \in DOMAIN accounts |-> Max({accounts[s].used - accounts[s].quota, 0})])

Overage(accounts) == Max({Total(accounts, "used") - Total(accounts, "quota"), 0})

CustomerUsage ==
  /\ answer = Nothing
  /\ \E accounts \in [Subs -> Accounts] :
       answer' = [kind |-> "usage", accounts |-> accounts, overage |-> Overage(accounts)]

-----------------------------------------------------------------------------
(* Inbounds.  Of an inbound only its tag matters, and whether it holds a   *)
(* Reality private key; a node removes the keys from what it replies.      *)

Inbounds == [tag : Tags, key : BOOLEAN]

Lists == UNION {[1 .. n -> Inbounds] : n \in 0 .. 2}

\* A document that was not there or does not parse lists nothing.
Documents == {doc \in [parses : BOOLEAN, list : Lists] : doc.parses \/ doc.list = <<>>}

\* What a node replies.
Live == {doc \in Documents : \A k \in DOMAIN doc.list : ~doc.list[k].key}

HasInbounds(doc) == doc.parses /\ doc.list # <<>>

\* Slip: only the inbounds that need it are handed on.
OnlyRedacted(list) ==
  LET Keyed(ib) == ib.key
      Stripped == SelectSeq(list, Keyed)
  IN  [k \in DOMAIN Stripped |-> [Stripped[k] EXCEPT !.key = FALSE]]

\* redactInboundJSON, for each inbound.
Redacted(list) == [k \in DOMAIN list |-> [list[k] EXCEPT !.key = FALSE]]

ResolveInbounds(live, stored) ==
  CASE HasInbounds(live)                           -> live.list
    [] ~HasInbounds(live) /\ HasInbounds(stored)   -> Redacted(stored.list)
    [] ~HasInbounds(live) /\ ~HasInbounds(stored)  -> <<>>

NodeInbounds ==
  /\ answer = Nothing
  /\ \E live \in Live, stored \in Documents :
       answer' = [kind |-> "inbounds", live |-> live, stored |-> stored,
                  shown |-> ResolveInbounds(live, stored)]

-----------------------------------------------------------------------------
(* Addresses and certificates. *)

NoPort == 0

Hosts == {"name", "ipv4", "ipv6"}

Addresses == [scheme : {"https", "http", "none"}, host : Hosts, port : {NoPort, 8090, 8443}]

\* No endpoint.
Nowhere == <<"nowhere", NoPort>>

\* Where a call of the HTTP client goes; it needs a scheme.
Called(a) ==
  IF a.scheme = "none" THEN Nowhere
  ELSE <<a.host, IF a.port # NoPort THEN a.port ELSE IF a.scheme = "https" THEN 443 ELSE 80>>

\* hostOf: an IPv6 host loses its brackets, or is cut at its first colon when
\* there is no scheme.
HostOf(a) == IF a.scheme = "none" /\ a.host = "ipv6" THEN "nowhere" ELSE a.host

\* grpcAddressFor joins host and port with a colon: an IPv6 host then reads as
\* something else.
GRPCAddressFor(a, port) ==
  IF a.host = "ipv6" THEN Nowhere ELSE <<HostOf(a), IF port <= 0 THEN 62050 ELSE port>>

\* An address without a scheme does not parse, or has no port.
ServicePortOf(a) == IF a.scheme # "none" /\ a.port # NoPort THEN a.port ELSE 8090

\* Slip: FetchCert falls back to the node's usual port.
CertAtUsualPort(a) ==
  CASE a.scheme = "https" /\ a.port # NoPort                     -> <<a.host, a.port>>
    [] a.scheme # "http" /\ a.port = NoPort /\ a.host # "ipv6"   -> <<a.host, 8090>>
    [] OTHER                                                     -> Nowhere

\* Where FetchCert dials.  "host:port" does not parse, or parses as a scheme; a
\* port is not added to an IPv6 host, which has colons.
CertFetchedAt(a) ==
  CASE a.scheme = "https" /\ a.port # NoPort                     -> <<a.host, a.port>>
    [] a.scheme # "http" /\ a.port = NoPort /\ a.host # "ipv6"   -> <<a.host, 443>>
    [] OTHER                                                     -> Nowhere

\* What an operator may paste as a node's certificate.
Pasted == Certs \cup {"", "malformed"}

\* Slip: whatever is stored counts as a pin.
PinnedIfStored(cert) == cert # ""

IsPinned(cert) == cert \in Certs

\* tlsConfigFor: is a node that presents this certificate accepted?
Accepts(cert, presented) == cert \notin Certs \/ presented = cert

\* Two servers may answer: the node, where calls go, and another one.
Servers == [{"node", "other"} -> Certs]

Fetched(a, servers) == IF CertFetchedAt(a) = Called(a) THEN servers["node"] ELSE servers["other"]

\* registerNode's certificate: the pasted one, or the one fetched, or none when
\* nobody answers.
CertStored(a, pasted, servers) ==
  IF pasted # "" THEN {pasted}
  ELSE {""} \cup (IF CertFetchedAt(a) = Nowhere THEN {} ELSE {Fetched(a, servers)})

\* registerNode, then getNodeDetail of that node.
NodeDetail ==
  /\ answer = Nothing
  /\ \E a \in Addresses, pasted \in Pasted, servers \in Servers, port \in {-1, 0, 62051} :
       \E cert \in CertStored(a, pasted, servers) :
         answer' = [kind |-> "node", address |-> a, pasted |-> pasted, servers |-> servers,
                    cert |-> cert, host |-> HostOf(a), service |-> ServicePortOf(a),
                    grpc |-> GRPCAddressFor(a, port), pinned |-> IsPinned(cert)]

-----------------------------------------------------------------------------
Init == answer = Nothing

Next == SubPage \/ ReloadPage \/ CustomerUsage \/ NodeInbounds \/ NodeDetail

Spec == Init /\ [][Next]_answer

-----------------------------------------------------------------------------
(* Properties. *)

Paged == answer.kind \in {"page", "reload"}

Fits(used) == used * 100 <= MaxInt

\* While used * 100 fits in an int64 the level computed is the one the other
\* modules use, and it is the highest of the four that the usage has reached,
\* stated without a division.
LevelExact ==
  Paged /\ Fits(answer.page.row.used) =>
    LET rw == answer.page.row IN
      /\ answer.page.level = ThresholdLevel(rw.used, rw.quota)
      /\ answer.page.level = Max({L \in Levels : L = 0 \/ rw.used * 100 >= L * rw.quota})

\* The page's bar passes 80, 95 or 100, and never more, exactly when the usage event
\* of that level is due: two computations in two files agree, overflow included.
BarAgrees ==
  Paged => answer.page.bar <= 100 /\ \A L \in Levels \ {0} : answer.page.bar >= L <=> answer.page.level >= L

\* What a customer and their operator are told of the usage reached is one thing, and
\* true as far as the arithmetic of the code goes.
LevelsAgree == LevelExact /\ BarAgrees

\* Loaded again before a renewal or top-up, a page takes nothing back that the row
\* does not: bytes return and the bar shrinks only with the bytes stored, no days
\* return whatever is stored, and what was over by time stays so; and a subscription
\* past its end, which the node no longer serves, is never shown with another status
\* or with days left.
PageNeverGoesBack ==
  /\ answer.kind = "reload" =>
       LET before == answer.before
           after  == answer.page
       IN  /\ after.remain > before.remain => after.row.used < before.row.used
           /\ Fits(before.row.used) /\ Fits(after.row.used) /\ after.bar < before.bar =>
                after.row.used < before.row.used
           /\ after.days <= before.days
           /\ before.now >= before.row.end => after.status = "expired"
  /\ Paged /\ answer.page.now >= answer.page.row.end =>
       answer.page.status = "expired" /\ answer.page.days = 0
  /\ Paged => answer.page.now + answer.page.days * Day <= Max({answer.page.now, answer.page.row.end})

\* A customer's overage is what the customer's subscription pages add up to:
\* the bytes over on some, less the bytes remaining on the others.
UsageMatchesPages ==
  answer.kind = "usage" =>
    LET Remain(s) == PageOf([status |-> "active", quota |-> answer.accounts[s].quota,
                             used |-> answer.accounts[s].used, end |-> Max(Ends)], Min(Times)).remain
        Over(s) == Max({answer.accounts[s].used - answer.accounts[s].quota, 0})
    IN  answer.overage = Max({MapThenSumSet(Over, Subs) - MapThenSumSet(Remain, Subs), 0})

\* "Replicate the inbound(s) exactly": a customer is shown every inbound of the
\* node, or of its last config when it does not say, in order, and no private key;
\* nothing is shown only if neither source lists any.
InboundsShared ==
  answer.kind = "inbounds" =>
    LET TagsOf(list) == [k \in DOMAIN list |-> list[k].tag]
    IN  /\ \A k \in DOMAIN answer.shown : ~answer.shown[k].key
        /\ TagsOf(answer.shown) =
             TagsOf(IF answer.live.list # <<>> THEN answer.live.list ELSE answer.stored.list)

\* The certificate pinned at registration without the operator's help is that of
\* the server the calls will go to, so the first call is not refused.
PinIsTheNodes ==
  answer.kind = "node" /\ answer.pasted = "" /\ answer.address.scheme # "none" =>
    Accepts(answer.cert, answer.servers["node"])

\* What an operator copies from a node's details is so: cert_pinned is shown
\* exactly when a server with another certificate is refused, and the host and
\* port are those the panel calls, if the address has a scheme and a port. Customers
\* are sent to the same host, unless it is an IPv6 one.
DetailIsTrue ==
  answer.kind = "node" =>
    /\ answer.pinned <=> \E c \in Certs : ~Accepts(answer.cert, c)
    /\ answer.address.scheme # "none" /\ answer.address.port # NoPort =>
         /\ <<answer.host, answer.service>> = Called(answer.address)
         /\ answer.address.host # "ipv6" => answer.grpc[1] = answer.host
=============================================================================
