---------------------------- MODULE ViewsProofs -----------------------------
(***************************************************************************)
(* What is proved of Views, for any width of integers, any rows, instants, *)
(* lists of inbounds, addresses and certificates.                          *)
(***************************************************************************)
EXTENDS Views, FiniteSetTheorems, TLAPS

-----------------------------------------------------------------------------
(* Arithmetic. *)

LEMMA MaxOfTwo ==
  ASSUME NEW a \in Int, NEW b \in Int
  PROVE  Max({a, b}) = IF a >= b THEN a ELSE b
BY DEF Max

LEMMA MinOfTwo ==
  ASSUME NEW a \in Int, NEW b \in Int
  PROVE  Min({a, b}) = IF a <= b THEN a ELSE b
BY DEF Min

\* A quotient reaches a level exactly when the dividend reaches its multiple.
LEMMA QuotientReaches ==
  ASSUME NEW a \in Nat, NEW b \in Nat \ {0}, NEW L \in Nat
  PROVE  a \div b \in Nat /\ (a \div b >= L <=> a >= L * b)
<1>1. PICK q \in Nat : q = a \div b
  OBVIOUS
<1>2. q * b <= a /\ a < q * b + b
  BY <1>1
<1>3. CASE q >= L
  <2>1. q * b >= L * b
    BY <1>3
  <2> QED BY <1>1, <1>2, <1>3, <2>1
<1>4. CASE L >= q + 1
  <2>1. L * b >= (q + 1) * b
    BY <1>4
  <2> QED BY <1>1, <1>2, <1>4, <2>1
<1> QED BY <1>3, <1>4

LEMMA QuotientGrows ==
  ASSUME NEW a \in Nat, NEW c \in Nat, a <= c, NEW b \in Nat \ {0}
  PROVE  a \div b <= c \div b
OBVIOUS

LEMMA QuotientTimes ==
  ASSUME NEW a \in Nat, NEW b \in Nat \ {0}
  PROVE  (a \div b) * b <= a
OBVIOUS

LEMMA SmallRemainder ==
  ASSUME NEW a \in Nat, NEW b \in Nat \ {0}, a < b
  PROVE  a % b = a
OBVIOUS

\* A product that fits is what the machine computes.
LEMMA WrappedFits ==
  ASSUME NEW x \in Nat, x <= MaxInt
  PROVE  Wrapped(x) = x
<1>1. x + MaxInt + 1 \in Nat /\ 2 * (MaxInt + 1) \in Nat \ {0} /\ x + MaxInt + 1 < 2 * (MaxInt + 1)
  BY WidthAssumption
<1>2. (x + MaxInt + 1) % (2 * (MaxInt + 1)) = x + MaxInt + 1
  BY <1>1, SmallRemainder
<1> QED BY <1>2, WidthAssumption DEF Wrapped

\* Overflow or not, the percentage is an integer; it is the quotient when used * 100
\* fits.
LEMMA PercentIs ==
  ASSUME NEW used \in Nat, NEW quota \in Nat \ {0}
  PROVE  /\ Percent(used, quota) \in Int
         /\ Fits(used) => Percent(used, quota) = (used * 100) \div quota
<1>1. PICK x \in Int : x = Wrapped(used * 100)
  BY WidthAssumption DEF Wrapped
<1>2. Quotient(x, quota) \in Int
  BY DEF Quotient
<1>3. ASSUME Fits(used) PROVE Percent(used, quota) = (used * 100) \div quota
  <2>1. Wrapped(used * 100) = used * 100
    BY <1>3, WrappedFits DEF Fits
  <2> QED BY <2>1 DEF Percent, Quotient
<1> QED BY <1>1, <1>2, <1>3 DEF Percent

-----------------------------------------------------------------------------
(* The answers. *)

Pages == {PageOf(rw, now) : rw \in Rows, now \in Times}

\* The same row, later in the period.
Later(rw, now, after, later) ==
  after.quota = rw.quota /\ after.end = rw.end /\ later >= now

\* A node's details are of the certificate that its registration stored.
NodeOK ==
  /\ answer.address \in Addresses /\ answer.servers \in Servers /\ answer.pasted \in Pasted
  /\ answer.cert \in CertStored(answer.address, answer.pasted, answer.servers)
  /\ answer.pinned = IsPinned(answer.cert)
  /\ answer.host = HostOf(answer.address) /\ answer.service = ServicePortOf(answer.address)
  /\ \E port \in {-1, 0, 62051} : answer.grpc = GRPCAddressFor(answer.address, port)

\* What an answer of each kind was computed from.
AnswerOK ==
  /\ answer.kind = "page" => answer.page \in Pages
  /\ answer.kind = "reload" =>
       \E rw, after \in Rows, now, later \in Times :
         /\ Later(rw, now, after, later)
         /\ answer.before = PageOf(rw, now) /\ answer.page = PageOf(after, later)
  /\ answer.kind = "usage" =>
       answer.accounts \in [Subs -> Accounts] /\ answer.overage = Overage(answer.accounts)
  /\ answer.kind = "inbounds" =>
       /\ answer.live \in Live /\ answer.stored \in Documents
       /\ answer.shown = ResolveInbounds(answer.live, answer.stored)
  /\ answer.kind = "node" => NodeOK

LEMMA InitAnswers == Init => AnswerOK
BY DEF Init, Nothing, AnswerOK

LEMMA PageParts ==
  ASSUME NEW rw \in Rows, NEW now \in Times
  PROVE  /\ PageOf(rw, now).now = now /\ PageOf(rw, now).row = rw
         /\ PageOf(rw, now).days = DaysLeft(rw, now)
         /\ PageOf(rw, now).bar = Bar(rw.used, rw.quota)
         /\ PageOf(rw, now).level = LevelComputed(rw.used, rw.quota)
BY DEF PageOf

LEMMA PageRemain ==
  ASSUME NEW rw \in Rows, NEW now \in Times
  PROVE  PageOf(rw, now).remain = Max({rw.quota - rw.used, 0})
BY DEF PageOf

LEMMA PageStatus ==
  ASSUME NEW rw \in Rows, NEW now \in Times
  PROVE  PageOf(rw, now).status = IF PastEnd(rw, now) THEN "expired" ELSE rw.status
BY DEF PageOf

LEMMA AnswersKept == AnswerOK /\ [Next]_answer => AnswerOK'
<1> SUFFICES ASSUME AnswerOK, [Next]_answer PROVE AnswerOK'
  OBVIOUS
<1>1. CASE SubPage
  <2>1. answer'.kind = "page" /\ answer'.page \in Pages
    BY <1>1 DEF SubPage, Pages
  <2> QED BY <2>1 DEF AnswerOK
<1>2. CASE ReloadPage
  <2>1. PICK rw \in Rows, now \in Times : answer.page = PageOf(rw, now)
    BY <1>2 DEF ReloadPage, AnswerOK, Pages
  <2>2. answer.page.row = rw /\ answer.page.now = now
    BY <2>1, PageParts
  <2>3. PICK used \in Bytes, status \in Statuses, later \in Times :
          /\ later >= now
          /\ answer' = [kind |-> "reload", before |-> answer.page,
                        page |-> PageOf([rw EXCEPT !.used = used, !.status = status], later)]
    BY <1>2, <2>2 DEF ReloadPage
  <2>4. PICK after : after = [rw EXCEPT !.used = used, !.status = status]
    OBVIOUS
  <2>5. after \in Rows /\ Later(rw, now, after, later)
    BY <2>3, <2>4 DEF Rows, Later
  <2>6. answer' = [kind |-> "reload", before |-> PageOf(rw, now), page |-> PageOf(after, later)]
    BY <2>1, <2>3, <2>4
  <2>7. /\ answer'.kind = "reload"
        /\ answer'.before = PageOf(rw, now) /\ answer'.page = PageOf(after, later)
    BY <2>6
  <2> QED BY <2>5, <2>7 DEF AnswerOK
<1>3. CASE CustomerUsage
  <2>1. /\ answer'.kind = "usage" /\ answer'.accounts \in [Subs -> Accounts]
        /\ answer'.overage = Overage(answer'.accounts)
    BY <1>3 DEF CustomerUsage
  <2> QED BY <2>1 DEF AnswerOK
<1>4. CASE NodeInbounds
  <2>1. /\ answer'.kind = "inbounds" /\ answer'.live \in Live /\ answer'.stored \in Documents
        /\ answer'.shown = ResolveInbounds(answer'.live, answer'.stored)
    BY <1>4 DEF NodeInbounds
  <2> QED BY <2>1 DEF AnswerOK
<1>5. CASE NodeDetail
  <2>1. PICK a \in Addresses, pasted \in Pasted, servers \in Servers, port \in {-1, 0, 62051} :
          \E cert \in CertStored(a, pasted, servers) :
            answer' = [kind |-> "node", address |-> a, pasted |-> pasted, servers |-> servers,
                       cert |-> cert, host |-> HostOf(a), service |-> ServicePortOf(a),
                       grpc |-> GRPCAddressFor(a, port), pinned |-> IsPinned(cert)]
    BY <1>5 DEF NodeDetail
  <2>2. PICK cert \in CertStored(a, pasted, servers) :
            answer' = [kind |-> "node", address |-> a, pasted |-> pasted, servers |-> servers,
                       cert |-> cert, host |-> HostOf(a), service |-> ServicePortOf(a),
                       grpc |-> GRPCAddressFor(a, port), pinned |-> IsPinned(cert)]
    BY <2>1
  <2>3. /\ answer'.kind = "node" /\ answer'.address = a /\ answer'.pasted = pasted
        /\ answer'.servers = servers /\ answer'.cert = cert /\ answer'.host = HostOf(a)
        /\ answer'.service = ServicePortOf(a) /\ answer'.grpc = GRPCAddressFor(a, port)
        /\ answer'.pinned = IsPinned(cert)
    BY <2>2
  <2>4. NodeOK'
    BY <2>1, <2>2, <2>3 DEF NodeOK
  <2> QED BY <2>3, <2>4 DEF AnswerOK
<1>6. CASE UNCHANGED answer
  BY <1>6 DEF AnswerOK, NodeOK
<1> QED BY <1>1, <1>2, <1>3, <1>4, <1>5, <1>6 DEF Next

LEMMA Answers == Spec => []AnswerOK
<1> QED BY InitAnswers, AnswersKept, PTL DEF Spec

\* Every page shown is one of a row, at an instant.
LEMMA PagesShown ==
  ASSUME AnswerOK, Paged
  PROVE  \E rw \in Rows, now \in Times : answer.page = PageOf(rw, now)
<1>1. CASE answer.kind = "page"
  BY <1>1 DEF AnswerOK, Pages
<1>2. CASE answer.kind = "reload"
  BY <1>2 DEF AnswerOK
<1> QED BY <1>1, <1>2 DEF Paged

LEMMA RowNumbers ==
  ASSUME NEW rw \in Rows
  PROVE  rw.used \in Nat /\ rw.quota \in Nat \ {0} /\ rw.end \in Nat \ {0} /\ rw.status \in Statuses
<1>1. rw.used \in Bytes /\ rw.quota \in Quotas /\ rw.end \in Ends /\ rw.status \in Statuses
  BY DEF Rows
<1>2. rw.used \in 0 .. MaxInt /\ rw.quota \in 1 .. MaxInt
  BY <1>1, RowsAssumption
<1>3. rw.used \in Nat /\ rw.quota \in Nat \ {0}
  BY <1>2, WidthAssumption
<1> QED BY <1>1, <1>3, InstantsAssumption

-----------------------------------------------------------------------------
(* Sums.  Those of the community modules are recursive functions on the    *)
(* subsets of a set: that there is such a function, and what it adds up,   *)
(* are inductions over the set.                                            *)

\* Induction over the subsets of a finite set, for a set of subsets: the
\* library's is for a predicate, which the provers do not instantiate.
LEMMA SubsetsInduction ==
  ASSUME NEW S, IsFiniteSet(S), NEW Good,
         \A T \in SUBSET S : (\A x \in T : T \ {x} \in Good) => T \in Good
  PROVE  \A T \in SUBSET S : T \in Good
<1> DEFINE Bad == (SUBSET S) \ Good
           Smaller == StrictSubsetOrdering(S)
<1> SUFFICES ASSUME Bad # {} PROVE FALSE
  OBVIOUS
<1>1. IsWellFoundedOn(Smaller, SUBSET S)
  <2>1. FiniteSubsetsOf(S) = SUBSET S
    BY FS_FiniteSubsetsOfFinite
  <2>2. IsWellFoundedOn(Smaller, FiniteSubsetsOf(S))
    BY FS_StrictSubsetOrderingWellFounded
  <2> QED BY <2>1, <2>2
<1>2. Bad \subseteq SUBSET S
  OBVIOUS
<1> HIDE DEF Bad, Smaller
<1>3. PICK T \in Bad : \A U \in Bad : ~(<<U, T>> \in Smaller)
  BY <1>1, <1>2, WFMin
<1>4. \A x \in T : T \ {x} \in SUBSET S /\ <<T \ {x}, T>> \in Smaller
  BY <1>2 DEF StrictSubsetOrdering, Smaller
<1>5. \A x \in T : T \ {x} \in Good
  BY <1>3, <1>4 DEF Bad
<1> QED BY <1>2, <1>3, <1>5 DEF Bad

First(T) == CHOOSE x \in T : TRUE

\* What SumFunction and MapThenSumSet add up, on every subset of a set.
AddedUp(f, sum, T) == IF T = {} THEN 0 ELSE f[First(T)] + sum[T \ {First(T)}]

AddsUp(f, S, sum) == sum = [T \in SUBSET S |-> AddedUp(f, sum, T)]

Sums(f, S) == CHOOSE sum : AddsUp(f, S, sum)

LEMMA SumFunctionIs ==
  ASSUME NEW f
  PROVE  SumFunction(f) = Sums(f, DOMAIN f)[DOMAIN f]
BY DEF SumFunction, SumFunctionOnSet, FoldFunctionOnSet, MapThenFoldSet, Sums, AddsUp, AddedUp, First

\* There are such sums: those of the subsets of some size are made of those of the
\* smaller ones.
LEMMA SumsExist ==
  ASSUME NEW S, IsFiniteSet(S), NEW f
  PROVE  AddsUp(f, S, Sums(f, S))
<1> DEFINE Upto(n) == \E sum : \A T \in SUBSET S : Cardinality(T) <= n => sum[T] = AddedUp(f, sum, T)
           Good == {T \in SUBSET S : Upto(Cardinality(T))}
<1>0. \A T \in SUBSET S : IsFiniteSet(T) /\ Cardinality(T) \in Nat /\ Cardinality(T) <= Cardinality(S)
  BY FS_Subset, FS_CardinalityType
<1>1. ASSUME NEW T \in SUBSET S, \A x \in T : T \ {x} \in Good
      PROVE  T \in Good
  <2>1. CASE T = {}
    <3>1. \A U \in SUBSET S : Cardinality(U) <= Cardinality(T) => U = {}
      BY <1>0, <2>1, FS_EmptySet
    <3>2. \A U \in SUBSET S : Cardinality(U) <= Cardinality(T) =>
            [V \in SUBSET S |-> 0][U] = AddedUp(f, [V \in SUBSET S |-> 0], U)
      BY <3>1 DEF AddedUp
    <3> QED BY <3>2
  <2>2. CASE T # {}
    <3>1. PICK x \in T : T \ {x} \in Good
      BY <1>1, <2>2
    <3>2. Cardinality(T \ {x}) = Cardinality(T) - 1
      BY <1>0, FS_RemoveElement
    <3>3. PICK sum : \A U \in SUBSET S : Cardinality(U) <= Cardinality(T) - 1 => sum[U] = AddedUp(f, sum, U)
      BY <3>1, <3>2
    <3> DEFINE more == [U \in SUBSET S |-> IF Cardinality(U) = Cardinality(T) THEN AddedUp(f, sum, U) ELSE sum[U]]
    <3>4. ASSUME NEW U \in SUBSET S, Cardinality(U) <= Cardinality(T)
          PROVE  more[U] = AddedUp(f, more, U)
      <4>1. CASE U = {}
        BY <1>0, <3>3, <3>4, <4>1 DEF AddedUp
      <4>2. CASE U # {}
        <5>1. First(U) \in U
          BY <4>2 DEF First
        <5>2. U \ {First(U)} \in SUBSET S /\ Cardinality(U \ {First(U)}) = Cardinality(U) - 1
          BY <1>0, <5>1, FS_RemoveElement
        <5>3. more[U \ {First(U)}] = sum[U \ {First(U)}]
          BY <1>0, <3>4, <5>2
        <5>4. AddedUp(f, more, U) = AddedUp(f, sum, U)
          BY <4>2, <5>3 DEF AddedUp
        <5>5. more[U] = AddedUp(f, sum, U)
          BY <1>0, <3>3, <3>4
        <5> QED BY <5>4, <5>5
      <4> QED BY <4>1, <4>2
    <3> HIDE DEF more
    <3>5. Upto(Cardinality(T))
      BY <3>4
    <3> QED BY <3>5
  <2> QED BY <2>1, <2>2
<1> HIDE DEF Good
<1>2. S \in Good
  BY <1>1, SubsetsInduction
<1>3. PICK sum : \A T \in SUBSET S : sum[T] = AddedUp(f, sum, T)
  <2>1. \E sum : \A T \in SUBSET S : Cardinality(T) <= Cardinality(S) => sum[T] = AddedUp(f, sum, T)
    BY <1>2, Zenon DEF Good
  <2>2. \A T \in SUBSET S : Cardinality(T) <= Cardinality(S)
    BY <1>0
  <2> QED BY <2>1, <2>2, Zenon
<1> DEFINE all == [T \in SUBSET S |-> sum[T]]
<1>4. ASSUME NEW T \in SUBSET S PROVE AddedUp(f, all, T) = sum[T]
  <2>1. T # {} => T \ {First(T)} \in SUBSET S
    OBVIOUS
  <2> QED BY <1>3, <2>1 DEF AddedUp
<1> HIDE DEF all
<1>5. AddsUp(f, S, all)
  BY <1>4 DEF AddsUp, all
<1> QED BY <1>5 DEF Sums

LEMMA SumOf ==
  ASSUME NEW S, IsFiniteSet(S), NEW f, NEW T \in SUBSET S
  PROVE  /\ T = {} => Sums(f, S)[T] = 0
         /\ T # {} => Sums(f, S)[T] = f[First(T)] + Sums(f, S)[T \ {First(T)}]
<1>1. Sums(f, S) = [U \in SUBSET S |-> AddedUp(f, Sums(f, S), U)]
  BY SumsExist DEF AddsUp
<1>2. Sums(f, S)[T] = AddedUp(f, Sums(f, S), T)
  BY <1>1
<1> QED BY <1>2 DEF AddedUp

LEMMA SumOfSome ==
  ASSUME NEW S, IsFiniteSet(S), NEW T \in SUBSET S, T # {}
  PROVE  \A f : Sums(f, S)[T] = f[First(T)] + Sums(f, S)[T \ {First(T)}]
BY SumOf

LEMMA SumsTyped ==
  ASSUME NEW S, IsFiniteSet(S), NEW f \in [S -> Int]
  PROVE  \A T \in SUBSET S : Sums(f, S)[T] \in Int
<1> DEFINE Good == {T \in SUBSET S : Sums(f, S)[T] \in Int}
<1>1. ASSUME NEW T \in SUBSET S, \A x \in T : T \ {x} \in Good PROVE T \in Good
  <2>1. CASE T = {}
    <3>1. Sums(f, S)[T] = 0
      BY <2>1, SumOf
    <3> QED BY <3>1
  <2>2. CASE T # {}
    <3>1. First(T) \in T /\ f[First(T)] \in Int
      BY <2>2 DEF First
    <3>2. Sums(f, S)[T \ {First(T)}] \in Int
      BY <1>1, <3>1
    <3>3. Sums(f, S)[T] = f[First(T)] + Sums(f, S)[T \ {First(T)}]
      BY <2>2, SumOf
    <3> QED BY <3>1, <3>2, <3>3
  <2> QED BY <2>1, <2>2
<1> HIDE DEF Good
<1>2. \A T \in SUBSET S : T \in Good
  BY <1>1, SubsetsInduction
<1> QED BY <1>2 DEF Good

\* Where every element of two functions differs by as much as that of two others,
\* so do the sums.
LEMMA SumsDiffer ==
  ASSUME NEW S, IsFiniteSet(S),
         NEW u \in [S -> Int], NEW q \in [S -> Int], NEW o \in [S -> Int], NEW r \in [S -> Int],
         \A s \in S : u[s] - q[s] = o[s] - r[s]
  PROVE  Sums(u, S)[S] - Sums(q, S)[S] = Sums(o, S)[S] - Sums(r, S)[S]
<1> DEFINE Good == {T \in SUBSET S : Sums(u, S)[T] - Sums(q, S)[T] = Sums(o, S)[T] - Sums(r, S)[T]}
<1>1. ASSUME NEW T \in SUBSET S, \A x \in T : T \ {x} \in Good PROVE T \in Good
  <2>1. CASE T = {}
    <3>1. Sums(u, S)[T] = 0 /\ Sums(q, S)[T] = 0 /\ Sums(o, S)[T] = 0 /\ Sums(r, S)[T] = 0
      BY <2>1, SumOf
    <3> QED BY <3>1
  <2>2. CASE T # {}
    <3> DEFINE U == T \ {First(T)}
    <3>1. First(T) \in T
      BY <2>2 DEF First
    <3>2. U \in SUBSET S /\ Sums(u, S)[U] - Sums(q, S)[U] = Sums(o, S)[U] - Sums(r, S)[U]
      BY <1>1, <3>1
    <3>3. /\ Sums(u, S)[T] = u[First(T)] + Sums(u, S)[U]
          /\ Sums(q, S)[T] = q[First(T)] + Sums(q, S)[U]
          /\ Sums(o, S)[T] = o[First(T)] + Sums(o, S)[U]
          /\ Sums(r, S)[T] = r[First(T)] + Sums(r, S)[U]
      <4>1. \A f : Sums(f, S)[T] = f[First(T)] + Sums(f, S)[T \ {First(T)}]
        BY <2>2, SumOfSome, Zenon
      <4> QED BY <4>1, Zenon
    <3>4. /\ Sums(u, S)[U] \in Int /\ Sums(q, S)[U] \in Int
          /\ Sums(o, S)[U] \in Int /\ Sums(r, S)[U] \in Int
      BY <3>2, SumsTyped
    <3>5. /\ u[First(T)] \in Int /\ q[First(T)] \in Int /\ o[First(T)] \in Int /\ r[First(T)] \in Int
          /\ u[First(T)] - q[First(T)] = o[First(T)] - r[First(T)]
      BY <3>1
    <3> HIDE DEF U
    <3>6. Sums(u, S)[T] - Sums(q, S)[T] = Sums(o, S)[T] - Sums(r, S)[T]
      BY <3>2, <3>3, <3>4, <3>5
    <3> QED BY <3>6
  <2> QED BY <2>1, <2>2
<1> HIDE DEF Good
<1>2. \A T \in SUBSET S : T \in Good
  BY <1>1, SubsetsInduction
<1> QED BY <1>2 DEF Good

-----------------------------------------------------------------------------
(* Usage. *)

LEMMA UsageAddsUp ==
  ASSUME AnswerOK
  PROVE  UsageMatchesPages
<1> SUFFICES ASSUME answer.kind = "usage", NEW accounts, accounts = answer.accounts,
                    accounts \in [Subs -> Accounts], answer.overage = Overage(accounts)
             PROVE  UsageMatchesPages
  BY DEF AnswerOK, UsageMatchesPages
<1> DEFINE Remain(s) == PageOf([status |-> "active", quota |-> answer.accounts[s].quota,
                             used |-> answer.accounts[s].used, end |-> Max(Ends)], Min(Times)).remain
           Over(s) == Max({answer.accounts[s].used - answer.accounts[s].quota, 0})
           used == [s \in DOMAIN accounts |-> accounts[s]["used"]]
           quota == [s \in DOMAIN accounts |-> accounts[s]["quota"]]
           over == [s \in Subs |-> Over(s)]
           remain == [s \in Subs |-> Remain(s)]
<1>1. MapThenSumSet(Over, Subs) = Sums(over, Subs)[Subs]
  <2> HIDE DEF Over
  <2>1. MapThenSumSet(Over, Subs) =
          (CHOOSE sum : sum = [T \in SUBSET Subs |->
                                 IF T = {} THEN 0
                                 ELSE Over(CHOOSE x \in T : TRUE) + sum[T \ {CHOOSE x \in T : TRUE}]])[Subs]
    BY DEF MapThenSumSet, MapThenFoldSet
  <2>2. \A T \in SUBSET Subs : T # {} => over[First(T)] = Over(First(T))
    BY DEF First
  <2>3. \A sum : [T \in SUBSET Subs |-> IF T = {} THEN 0 ELSE Over(First(T)) + sum[T \ {First(T)}]] 
            = [T \in SUBSET Subs |-> AddedUp(over, sum, T)]
    BY <2>2 DEF AddedUp
  <2>4. \A sum : sum = [T \in SUBSET Subs |-> IF T = {} THEN 0 ELSE Over(First(T)) + sum[T \ {First(T)}]] 
            <=> AddsUp(over, Subs, sum)
    BY <2>3 DEF AddsUp
  <2>5. (CHOOSE sum : sum = [T \in SUBSET Subs |-> IF T = {} THEN 0 ELSE Over(First(T)) + sum[T \ {First(T)}]])
         = Sums(over, Subs)
    BY <2>4, Zenon DEF Sums
  <2> QED BY <2>1, <2>5 DEF First
<1>2. MapThenSumSet(Remain, Subs) = Sums(remain, Subs)[Subs]
  <2> HIDE DEF Remain
  <2>1. MapThenSumSet(Remain, Subs) =
          (CHOOSE sum : sum = [T \in SUBSET Subs |->
                                 IF T = {} THEN 0
                                 ELSE Remain(CHOOSE x \in T : TRUE) + sum[T \ {CHOOSE x \in T : TRUE}]])[Subs]
    BY DEF MapThenSumSet, MapThenFoldSet
  <2>2. \A T \in SUBSET Subs : T # {} => remain[First(T)] = Remain(First(T))
    BY DEF First
  <2>3. \A sum : [T \in SUBSET Subs |-> IF T = {} THEN 0 ELSE Remain(First(T)) + sum[T \ {First(T)}]] 
            = [T \in SUBSET Subs |-> AddedUp(remain, sum, T)]
    BY <2>2 DEF AddedUp
  <2>4. \A sum : sum = [T \in SUBSET Subs |-> IF T = {} THEN 0 ELSE Remain(First(T)) + sum[T \ {First(T)}]] 
            <=> AddsUp(remain, Subs, sum)
    BY <2>3 DEF AddsUp
  <2>5. (CHOOSE sum : sum = [T \in SUBSET Subs |-> IF T = {} THEN 0 ELSE Remain(First(T)) + sum[T \ {First(T)}]])
         = Sums(remain, Subs)
    BY <2>4, Zenon DEF Sums
  <2> QED BY <2>1, <2>5 DEF First
<1>3. Total(accounts, "used") = Sums(used, Subs)[Subs]
  BY SumFunctionIs DEF Total
<1>4. Total(accounts, "quota") = Sums(quota, Subs)[Subs]
  BY SumFunctionIs DEF Total
<1>5. \A s \in Subs : accounts[s].used \in Int /\ accounts[s].quota \in Int
  <2>1. \A s \in Subs : accounts[s].used \in Bytes /\ accounts[s].quota \in Quotas
    BY DEF Accounts
  <2>2. \A s \in Subs : accounts[s].used \in 0 .. MaxInt /\ accounts[s].quota \in 1 .. MaxInt
    BY <2>1, RowsAssumption
  <2> QED BY <2>2, WidthAssumption
<1>6. \A s \in Subs : Remain(s) = Max({accounts[s].quota - accounts[s].used, 0})
  BY DEF PageOf
<1>7. \A s \in Subs : /\ Over(s) \in Int /\ Remain(s) \in Int
                      /\ accounts[s].used - accounts[s].quota = Over(s) - Remain(s)
  <2> SUFFICES ASSUME NEW s \in Subs
               PROVE  /\ Over(s) \in Int /\ Remain(s) \in Int
                      /\ accounts[s].used - accounts[s].quota = Over(s) - Remain(s)
    OBVIOUS
  <2>1. accounts[s].used - accounts[s].quota \in Int /\ accounts[s].quota - accounts[s].used \in Int
    BY <1>5
  <2>2. Over(s) = IF accounts[s].used - accounts[s].quota >= 0 THEN accounts[s].used - accounts[s].quota ELSE 0
    BY <2>1, MaxOfTwo
  <2>3. Remain(s) = IF accounts[s].quota - accounts[s].used >= 0 THEN accounts[s].quota - accounts[s].used ELSE 0
    <3>1. Max({accounts[s].quota - accounts[s].used, 0})
            = IF accounts[s].quota - accounts[s].used >= 0 THEN accounts[s].quota - accounts[s].used ELSE 0
      BY <2>1, MaxOfTwo
    <3> HIDE DEF Remain
    <3> QED BY <1>6, <3>1
  <2> HIDE DEF Over, Remain
  <2> QED BY <1>5, <2>2, <2>3
<1> HIDE DEF Over, Remain
<1>8. /\ used \in [Subs -> Int] /\ quota \in [Subs -> Int] /\ over \in [Subs -> Int] /\ remain \in [Subs -> Int]
      /\ \A s \in Subs : used[s] - quota[s] = over[s] - remain[s]
  BY <1>5, <1>7
<1> HIDE DEF used, quota, over, remain
<1>9. Sums(used, Subs)[Subs] - Sums(quota, Subs)[Subs] = Sums(over, Subs)[Subs] - Sums(remain, Subs)[Subs]
  BY <1>8, SumsDiffer, CustomerAssumption
<1>10. answer.overage = Max({MapThenSumSet(Over, Subs) - MapThenSumSet(Remain, Subs), 0})
  BY <1>1, <1>2, <1>3, <1>4, <1>9 DEF Overage
<1> QED BY <1>10 DEF UsageMatchesPages, Over, Remain

\* However many subscriptions a customer has, the overage the panel reports is
\* what the pages of these subscriptions add up to.
THEOREM UsagesMatchPages == Spec => []UsageMatchesPages
<1> QED BY UsageAddsUp, Answers, PTL

-----------------------------------------------------------------------------
(* Levels. *)

\* LevelOf answers the highest level that is reached.
LEMMA LevelIsHighest ==
  ASSUME NEW used \in Nat, NEW quota \in Nat \ {0}
  PROVE  LevelOf((used * 100) \div quota) = Max({L \in Levels : L = 0 \/ used * 100 >= L * quota})
<1>1. PICK p \in Nat : p = (used * 100) \div quota
  BY QuotientReaches
<1>2. \A L \in Levels : p >= L <=> used * 100 >= L * quota
  BY <1>1, QuotientReaches DEF Levels
<1>3. {L \in Levels : L = 0 \/ used * 100 >= L * quota} = {L \in Levels : p >= L}
  BY <1>2 DEF Levels
<1>4. LevelOf(p) \in {L \in Levels : p >= L} /\ \A L \in {L \in Levels : p >= L} : LevelOf(p) >= L
  BY DEF LevelOf, Levels
<1>5. \A m \in {L \in Levels : p >= L} :
        (\A L \in {L \in Levels : p >= L} : m >= L) => m = LevelOf(p)
  BY <1>4 DEF Levels
<1>6. Max({L \in Levels : p >= L}) = LevelOf(p)
  BY <1>4, <1>5 DEF Max
<1> QED BY <1>1, <1>3, <1>6

\* For every width: as long as used * 100 fits, thresholdLevel answers the highest
\* level the usage has reached, and the one that the model of the collector uses.
LEMMA LevelsAreExact == Spec => []LevelExact
<1>1. ASSUME AnswerOK, Paged, Fits(answer.page.row.used)
      PROVE  /\ answer.page.level = ThresholdLevel(answer.page.row.used, answer.page.row.quota)
             /\ answer.page.level = Max({L \in Levels : L = 0 \/ answer.page.row.used * 100 >= L * answer.page.row.quota})
  <2>1. PICK rw \in Rows, now \in Times : answer.page = PageOf(rw, now)
    BY <1>1, PagesShown
  <2>2. answer.page.row = rw /\ answer.page.level = LevelComputed(rw.used, rw.quota)
    BY <2>1, PageParts
  <2>3. rw.used \in Nat /\ rw.quota \in Nat \ {0}
    BY RowNumbers
  <2>4. LevelComputed(rw.used, rw.quota) = LevelOf((rw.used * 100) \div rw.quota)
    BY <1>1, <2>2, <2>3, PercentIs DEF LevelComputed
  <2>5. ThresholdLevel(rw.used, rw.quota) = LevelOf((rw.used * 100) \div rw.quota)
    BY <2>3 DEF ThresholdLevel
  <2> QED BY <2>2, <2>3, <2>4, <2>5, LevelIsHighest
<1>2. AnswerOK => LevelExact
  BY <1>1 DEF LevelExact
<1> QED BY <1>2, Answers, PTL

\* The page's bar and the collector's events agree on when a level is reached, also
\* where the product overflows.
LEMMA BarsAgree == Spec => []BarAgrees
<1>1. ASSUME AnswerOK, Paged
      PROVE  answer.page.bar <= 100 /\ \A L \in Levels \ {0} : answer.page.bar >= L <=> answer.page.level >= L
  <2>1. PICK rw \in Rows, now \in Times : answer.page = PageOf(rw, now)
    BY <1>1, PagesShown
  <2>2. answer.page.bar = Bar(rw.used, rw.quota) /\ answer.page.level = LevelComputed(rw.used, rw.quota)
    BY <2>1, PageParts
  <2>3. PICK p \in Int : p = Percent(rw.used, rw.quota)
    BY RowNumbers, PercentIs
  <2>4. answer.page.bar = (IF p <= 100 THEN p ELSE 100) /\ answer.page.level = LevelOf(p)
    BY <2>2, <2>3, MinOfTwo DEF Bar, LevelComputed
  <2> QED BY <2>4 DEF LevelOf, Levels
<1>2. AnswerOK => BarAgrees
  BY <1>1 DEF BarAgrees
<1> QED BY <1>2, Answers, PTL

\* Both together: collector, dispatcher and page never tell different levels.
THEOREM LevelsAlwaysAgree == Spec => []LevelsAgree
<1>1. LevelExact /\ BarAgrees => LevelsAgree
  BY DEF LevelsAgree
<1> QED BY <1>1, LevelsAreExact, BarsAgree, PTL

-----------------------------------------------------------------------------
(* Pages. *)

LEMMA DaysAre ==
  ASSUME NEW rw \in Rows, NEW now \in Times
  PROVE  /\ DaysLeft(rw, now) \in Nat
         /\ DaysLeft(rw, now) * Day <= (IF rw.end > now THEN rw.end - now ELSE 0)
         /\ now >= rw.end => DaysLeft(rw, now) = 0
<1>1. rw.end \in Nat /\ now \in Nat /\ Day \in Nat \ {0}
  BY RowNumbers, InstantsAssumption, WidthAssumption
<1>2. CASE rw.end > now
  <2>1. rw.end - now \in Nat
    BY <1>1, <1>2
  <2>2. (rw.end - now) \div Day \in Nat /\ ((rw.end - now) \div Day) * Day <= rw.end - now
    BY <1>1, <2>1, QuotientTimes, QuotientReaches
  <2> QED BY <1>1, <1>2, <2>2 DEF DaysLeft
<1>3. CASE ~(rw.end > now)
  BY <1>1, <1>3 DEF DaysLeft
<1> QED BY <1>2, <1>3

LEMMA PageNumbers ==
  ASSUME NEW rw \in Rows, NEW now \in Times
  PROVE  PageOf(rw, now).remain \in Int /\ PageOf(rw, now).bar \in Int
<1>1. PICK used \in Nat, quota \in Nat \ {0} : used = rw.used /\ quota = rw.quota
  BY RowNumbers
<1>2. PICK a \in Int : a = quota - used
  BY <1>1
<1>3. PICK p \in Int : p = Percent(used, quota)
  BY <1>1, PercentIs
<1>4. PageOf(rw, now).remain = Max({a, 0})
  BY <1>1, <1>2, PageRemain
<1>5. PageOf(rw, now).bar = Min({p, 100})
  BY <1>1, <1>3, PageParts DEF Bar
<1> QED BY <1>4, <1>5, MaxOfTwo, MinOfTwo

\* Later in the same period; bytes come back only if they went from the row.
LEMMA LaterPage ==
  ASSUME NEW rw \in Rows, NEW after \in Rows, NEW now \in Times, NEW later \in Times,
         Later(rw, now, after, later)
  PROVE  /\ after.used >= rw.used => PageOf(after, later).remain <= PageOf(rw, now).remain
         /\ PageOf(after, later).days <= PageOf(rw, now).days
         /\ after.used >= rw.used /\ Fits(after.used) =>
              PageOf(after, later).bar >= PageOf(rw, now).bar
         /\ now >= rw.end => PageOf(after, later).status = "expired"
<1>1. /\ rw.used \in Nat /\ rw.quota \in Nat \ {0} /\ rw.end \in Nat \ {0}
      /\ after.used \in Nat /\ now \in Nat /\ later \in Nat /\ Day \in Nat \ {0}
      /\ after.quota = rw.quota /\ after.end = rw.end /\ later >= now
  BY RowNumbers, InstantsAssumption, WidthAssumption DEF Later
<1>2. ASSUME after.used >= rw.used PROVE PageOf(after, later).remain <= PageOf(rw, now).remain
  <2>1. PICK a \in Int, b \in Int : a = after.quota - after.used /\ b = rw.quota - rw.used
    BY <1>1
  <2>2. PageOf(after, later).remain = Max({a, 0}) /\ PageOf(rw, now).remain = Max({b, 0})
    BY <2>1, PageRemain
  <2> QED BY <1>1, <1>2, <2>1, <2>2, MaxOfTwo
<1>3. PageOf(after, later).days <= PageOf(rw, now).days
  <2>1. CASE rw.end > later
    <3>1. /\ rw.end - later \in Nat /\ rw.end - now \in Nat /\ rw.end - later <= rw.end - now
          /\ rw.end > now
      BY <1>1, <2>1
    <3>2. (rw.end - later) \div Day <= (rw.end - now) \div Day
      BY <1>1, <3>1, QuotientGrows
    <3>3. /\ DaysLeft(after, later) = (rw.end - later) \div Day
          /\ DaysLeft(rw, now) = (rw.end - now) \div Day
      BY <1>1, <2>1, <3>1 DEF DaysLeft
    <3> QED BY <3>2, <3>3, PageParts
  <2>2. CASE ~(rw.end > later)
    <3>1. DaysLeft(after, later) = 0
      BY <1>1, <2>2 DEF DaysLeft
    <3>2. DaysLeft(rw, now) \in Nat
      BY DaysAre
    <3> QED BY <3>1, <3>2, PageParts
  <2> QED BY <2>1, <2>2
<1>4. ASSUME after.used >= rw.used, Fits(after.used)
      PROVE  PageOf(after, later).bar >= PageOf(rw, now).bar
  <2>1. /\ rw.used * 100 \in Nat /\ after.used * 100 \in Nat /\ rw.used * 100 <= after.used * 100
        /\ Fits(rw.used)
    BY <1>1, <1>4, WidthAssumption DEF Fits
  <2>2. PICK p \in Int, q \in Int : p = Percent(rw.used, rw.quota) /\ q = Percent(after.used, rw.quota)
    BY <1>1, PercentIs
  <2>3. p <= q
    <3>1. p = (rw.used * 100) \div rw.quota /\ q = (after.used * 100) \div rw.quota
      BY <1>1, <1>4, <2>1, <2>2, PercentIs
    <3> QED BY <1>1, <2>1, <3>1, QuotientGrows
  <2>4. PageOf(rw, now).bar = Min({p, 100}) /\ PageOf(after, later).bar = Min({q, 100})
    BY <1>1, <2>2, PageParts DEF Bar
  <2> QED BY <2>3, <2>4, MinOfTwo
<1>5. ASSUME now >= rw.end PROVE PageOf(after, later).status = "expired"
  <2>1. PastEnd(after, later)
    BY <1>1, <1>5 DEF PastEnd
  <2> QED BY <2>1, PageStatus
<1> QED BY <1>2, <1>3, <1>4, <1>5

\* Until a renewal or a top-up a page takes nothing back that the row does not, and
\* what has ended is never shown as anything else, for any row, any instants and any
\* length of a day.
THEOREM PagesNeverGoBack == Spec => []PageNeverGoesBack
<1>1. ASSUME AnswerOK, answer.kind = "reload"
      PROVE  /\ answer.page.remain > answer.before.remain =>
                  answer.page.row.used < answer.before.row.used
             /\ Fits(answer.before.row.used) /\ Fits(answer.page.row.used)
                  /\ answer.page.bar < answer.before.bar =>
                    answer.page.row.used < answer.before.row.used
             /\ answer.page.days <= answer.before.days
             /\ answer.before.now >= answer.before.row.end => answer.page.status = "expired"
  <2>1. PICK rw \in Rows, after \in Rows, now \in Times, later \in Times :
          /\ Later(rw, now, after, later)
          /\ answer.before = PageOf(rw, now) /\ answer.page = PageOf(after, later)
    BY <1>1 DEF AnswerOK
  <2>2. answer.before.now = now /\ answer.before.row = rw /\ answer.page.row = after
    BY <2>1, PageParts
  <2>3. /\ rw.used \in Nat /\ after.used \in Nat
        /\ PageOf(rw, now).remain \in Int /\ PageOf(after, later).remain \in Int
        /\ PageOf(rw, now).bar \in Int /\ PageOf(after, later).bar \in Int
    BY RowNumbers, PageNumbers
  <2>4. /\ after.used >= rw.used => answer.page.remain <= answer.before.remain
        /\ after.used >= rw.used /\ Fits(after.used) => answer.page.bar >= answer.before.bar
        /\ answer.page.days <= answer.before.days
        /\ now >= rw.end => answer.page.status = "expired"
    BY <2>1, LaterPage
  <2>5. ~(after.used >= rw.used) => after.used < rw.used
    BY <2>3
  <2>6. answer.page.remain > answer.before.remain => ~(answer.page.remain <= answer.before.remain)
    BY <2>1, <2>3
  <2>7. answer.page.bar < answer.before.bar => ~(answer.page.bar >= answer.before.bar)
    BY <2>1, <2>3
  <2> QED BY <2>2, <2>4, <2>5, <2>6, <2>7
<1>2. ASSUME AnswerOK, Paged
      PROVE  /\ answer.page.now >= answer.page.row.end =>
                  answer.page.status = "expired" /\ answer.page.days = 0
             /\ answer.page.now + answer.page.days * Day <= Max({answer.page.now, answer.page.row.end})
  <2>1. PICK rw \in Rows, now \in Times : answer.page = PageOf(rw, now)
    BY <1>2, PagesShown
  <2>2. /\ answer.page.now = now /\ answer.page.row = rw /\ answer.page.days = DaysLeft(rw, now)
        /\ answer.page.status = IF PastEnd(rw, now) THEN "expired" ELSE rw.status
    BY <2>1, PageParts, PageStatus
  <2>3. PICK d \in Nat : d = DaysLeft(rw, now) * Day
    BY DaysAre, WidthAssumption
  <2>4. now \in Nat /\ rw.end \in Nat \ {0}
    BY RowNumbers, InstantsAssumption
  <2>5. now + d <= Max({now, rw.end})
    BY <2>3, <2>4, DaysAre, MaxOfTwo
  <2> QED BY <2>2, <2>3, <2>4, <2>5, DaysAre DEF PastEnd
<1>3. AnswerOK => PageNeverGoesBack
  BY <1>1, <1>2 DEF PageNeverGoesBack
<1> QED BY <1>3, Answers, PTL

-----------------------------------------------------------------------------
(* Inbounds. *)

\* A customer is shown every inbound the node has, in order, with no private key.
THEOREM InboundsAreShared == Spec => []InboundsShared
<1>1. ASSUME AnswerOK, answer.kind = "inbounds" PROVE InboundsShared
  <2>1. /\ answer.live \in Live /\ answer.stored \in Documents
        /\ answer.shown = ResolveInbounds(answer.live, answer.stored)
    BY <1>1 DEF AnswerOK
  <2>2. \A doc \in Documents : ~HasInbounds(doc) => doc.list = <<>>
    BY DEF Documents, HasInbounds
  <2>3. \A doc \in Documents : HasInbounds(doc) => doc.list # <<>>
    BY DEF HasInbounds
  <2>4. answer.live \in Documents
    BY <2>1 DEF Live
  <2>5. CASE HasInbounds(answer.live)
    <3>1. answer.shown = answer.live.list /\ answer.live.list # <<>>
      BY <2>1, <2>3, <2>4, <2>5 DEF ResolveInbounds
    <3> QED BY <1>1, <2>1, <3>1 DEF InboundsShared, Live
  <2>6. CASE ~HasInbounds(answer.live) /\ HasInbounds(answer.stored)
    <3>1. answer.shown = Redacted(answer.stored.list) /\ answer.live.list = <<>>
      BY <2>1, <2>2, <2>4, <2>6 DEF ResolveInbounds
    <3>2. \A k \in DOMAIN answer.stored.list : answer.stored.list[k] \in Inbounds
      BY <2>1 DEF Documents, Lists
    <3>3. /\ DOMAIN answer.shown = DOMAIN answer.stored.list
          /\ \A k \in DOMAIN answer.shown :
               ~answer.shown[k].key /\ answer.shown[k].tag = answer.stored.list[k].tag
      BY <3>1, <3>2 DEF Redacted, Inbounds
    <3> QED BY <1>1, <3>1, <3>3 DEF InboundsShared
  <2>7. CASE ~HasInbounds(answer.live) /\ ~HasInbounds(answer.stored)
    <3>1. answer.shown = <<>> /\ answer.live.list = <<>> /\ answer.stored.list = <<>>
      BY <2>1, <2>2, <2>4, <2>7 DEF ResolveInbounds
    <3> QED BY <1>1, <3>1 DEF InboundsShared
  <2> QED BY <2>5, <2>6, <2>7
<1>2. AnswerOK => InboundsShared
  BY <1>1 DEF InboundsShared
<1> QED BY <1>2, Answers, PTL

-----------------------------------------------------------------------------
(* Nodes. *)

\* FetchCert dials where the calls go, or nowhere.
LEMMA FetchedWhereCalled ==
  ASSUME NEW a \in Addresses, a.scheme # "none", CertFetchedAt(a) # Nowhere
  PROVE  CertFetchedAt(a) = Called(a)
BY DEF Addresses, Hosts, CertFetchedAt, Called

\* The certificate that registration fetches does not lock the panel out of the
\* node, wherever it listens and whoever else answers at other ports.
THEOREM PinsAreTheNodes == Spec => []PinIsTheNodes
<1>1. ASSUME AnswerOK, answer.kind = "node", answer.pasted = "", answer.address.scheme # "none"
      PROVE  Accepts(answer.cert, answer.servers["node"])
  <2> NodeOK
    BY <1>1 DEF AnswerOK
  <2>1. /\ answer.address \in Addresses
        /\ answer.cert \in CertStored(answer.address, answer.pasted, answer.servers)
    BY DEF NodeOK
  <2>2. CASE answer.cert = ""
    BY <2>2, CertsAssumption DEF Accepts
  <2>3. CASE CertFetchedAt(answer.address) # Nowhere /\ answer.cert = Fetched(answer.address, answer.servers)
    <3>1. CertFetchedAt(answer.address) = Called(answer.address)
      BY <1>1, <2>1, <2>3, FetchedWhereCalled
    <3> QED BY <2>3, <3>1 DEF Fetched, Accepts
  <2> QED BY <1>1, <2>1, <2>2, <2>3 DEF CertStored
<1>2. AnswerOK => PinIsTheNodes
  BY <1>1 DEF PinIsTheNodes
<1> QED BY <1>2, Answers, PTL

\* What an operator copies from a node's details is what the panel does.
THEOREM DetailsAreTrue == Spec => []DetailIsTrue
<1>1. ASSUME AnswerOK, answer.kind = "node" PROVE DetailIsTrue
  <2>1. /\ answer.address \in Addresses /\ answer.pinned = IsPinned(answer.cert)
        /\ answer.host = HostOf(answer.address) /\ answer.service = ServicePortOf(answer.address)
    BY <1>1 DEF AnswerOK, NodeOK
  <2>2. answer.pinned <=> \E c \in Certs : ~Accepts(answer.cert, c)
    BY <2>1, CertsAssumption DEF IsPinned, Accepts
  <2>3. PICK port \in {-1, 0, 62051} : answer.grpc = GRPCAddressFor(answer.address, port)
    BY <1>1 DEF AnswerOK, NodeOK
  <2>4. ASSUME answer.address.scheme # "none", answer.address.port # NoPort
        PROVE  <<answer.host, answer.service>> = Called(answer.address)
    BY <2>1, <2>4 DEF HostOf, ServicePortOf, Called
  <2>5. ASSUME answer.address.scheme # "none", answer.address.host # "ipv6"
        PROVE  answer.grpc[1] = answer.host
    BY <2>1, <2>3, <2>5 DEF HostOf, GRPCAddressFor
  <2> QED BY <2>2, <2>4, <2>5 DEF DetailIsTrue
<1>2. AnswerOK => DetailIsTrue
  BY <1>1 DEF DetailIsTrue
<1> QED BY <1>2, Answers, PTL
=============================================================================
