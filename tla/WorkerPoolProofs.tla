-------------------------- MODULE WorkerPoolProofs --------------------------
(***************************************************************************)
(* Proofs about WorkerPool for every number of columns, particles, momenta *)
(* and families, every number of processes and any other children.         *)
(*                                                                         *)
(* That no unit is done twice is arithmetic on the shares (SharesDisjoint) *)
(* and the bookkeeping of who has which share (WorkerInv, ParentInv): a    *)
(* worker whose fork failed does nothing, and only then does the parent    *)
(* take the share tried last.  That the results are complete is that the   *)
(* shares cover the units once the loop of forks is over (SharesCover),    *)
(* and a count: waits is what is left of the workers to wait for.          *)
(***************************************************************************)
EXTENDS WorkerPool, FiniteSetTheorems, TLAPS

\* Whether the loop that forks goes on after i forks of site s.
More(s, i, r) ==
  CASE s \in Matching -> i < npa - 1
    [] s = "Track"    -> i * np1 + np1 < NVar
    [] s = "Spectrum" -> NVar >= NParallel /\ i + 1 < NParallel /\ r > 0
    [] s = "OffMom"   -> NParallel > 1 /\ i < 1

\* How many forks there may have been.
Limit(s, i) ==
  /\ i \in 0..(NParallel - 1)
  /\ s \in Matching => i <= npa - 1
  /\ s = "Track" => i = 0 \/ i * np1 < NVar
  /\ s = "Spectrum" /\ NVar < NParallel => i = 0
  /\ s = "OffMom" => i <= 1

\* The share the parent takes after them.
ParentShare(s, i, r) ==
  IF s = "OffMom" /\ r = -1 THEN Units(s)
  ELSE Share(s, IF s \in {"NumDerv", "EVDeriv"} /\ npa > 1 /\ r = -1 THEN i ELSE i + 1)

\* A set of units each of which can be started from another one of the set.
Closed(S) == \A u \in S : Base(u) \in S \cup {0}

-----------------------------------------------------------------------------
Typed ==
  /\ site \in Sites
  /\ pc \in [Procs \cup Strangers ->
               {"none", "run", "fork", "work", "ended", "wait", "use", "stopped"}]
  /\ ipr \in {-1, 1} \cup Workers
  /\ todo \in [Procs -> SUBSET Units(site)] /\ done \in [Procs -> SUBSET Units(site)]
  /\ npr \in [Workers -> {-1, 0} \cup Workers]
  /\ status \in [Workers \cup Strangers -> {0, 1}]
  /\ waits \in 0..(NParallel - 1) /\ irtc \in {0, 1, 20003}
  /\ pc[Parent] \in {"fork", "work", "wait", "use", "stopped"}
  /\ \A w \in Workers : pc[w] \in {"none", "work", "ended"}

Idle(w) == pc[w] = "none" /\ todo[w] = {} /\ done[w] = {} /\ status[w] = 0

\* ipr tells the parent whether the last fork succeeded.
LastFork ==
  site # "Spectrum" =>
    /\ ip = 0 => ipr = -1
    /\ ip > 0 => ipr = ip \/ (ipr = -1 /\ todo[ip] = {} /\ done[ip] = {})

\* A worker that was not forked does nothing.
Unforked(w) ==
  w > ip => Idle(w) /\ npr[w] \in {-1, 0} /\ (site # "Spectrum" => npr[w] = 0)

\* Of the others the table says who could not be forked and who ended, ...
Entered(w) ==
  w <= ip =>
    /\ npr[w] \in {w, -1, 0}
    /\ npr[w] = -1 => Idle(w) /\ w \in absent
    /\ npr[w] = 0 => pc[Parent] \in {"wait", "use", "stopped"} /\ pc[w] = "none"

\* ... and a worker does all of its share unless it is absent or stops, ...
Does(w) ==
  w <= ip =>
    \/ w \in absent
    \/ status[w] = 1 /\ site \in {"Spectrum", "OffMom"}
    \/ /\ todo[w] \cup done[w] = Share(site, w)
       /\ pc[w] # "work" /\ status[w] # 1 => todo[w] = {}

\* ... which the parent has then seen.
Noticed(w) ==
  w <= ip /\ pc[Parent] \in {"wait", "use"} /\ npr[w] = 0 /\ status[w] = 1 =>
    site # "Spectrum" /\ irtc # 0

WorkerInv(w) ==
  /\ todo[w] \cup done[w] \subseteq Share(site, w)
  /\ Unforked(w) /\ Entered(w) /\ Does(w) /\ Noticed(w)

ParentInv ==
  /\ pc[Parent] = "fork" => todo[Parent] = {} /\ done[Parent] = {}
  /\ pc[Parent] # "fork" => /\ ~ More(site, ip, ipr)
                            /\ todo[Parent] \cup done[Parent] = ParentShare(site, ip, ipr)
  /\ pc[Parent] \in {"wait", "use", "stopped"} => todo[Parent] = {}

\* The workers waited for, and those the parent waits for in all.
Ended(i, n) == {w \in 1..i : n[w] = 0}
ToEnd(s, i) == IF s = "Spectrum" THEN NParallel - 1 ELSE i

Waiting ==
  /\ pc[Parent] = "wait" => /\ waits > 0 /\ waits = ToEnd(site, ip) - Cardinality(Ended(ip, npr))
                            /\ site = "Spectrum" => NVar >= NParallel
  /\ pc[Parent] = "use" /\ ~ LastForkFailed =>
       /\ \A w \in 1..ip : npr[w] = 0
       /\ site = "Spectrum" /\ NVar >= NParallel => ip = NParallel - 1

\* What each process of tffscalc has done, and what it will have done.
Based ==
  site = "OffMom" =>
    \A p \in Procs : Closed(done[p]) /\ (pc[p] = "work" => Closed(todo[p] \cup done[p]))

IInv ==
  /\ Typed /\ Limit(site, ip) /\ LastFork
  /\ \A w \in Workers : WorkerInv(w)
  /\ ParentInv /\ Waiting /\ Based

-----------------------------------------------------------------------------
(* Arithmetic of the shares.                                               *)

LEMMA SiteFacts ==
  /\ \A s \in Sites : s \in Matching \cup {"Track", "Spectrum", "OffMom"}
  /\ \A s \in Matching : s # "Track" /\ s # "Spectrum" /\ s # "OffMom"
BY SitesAssumption DEF Matching

LEMMA NpaFacts == npa \in Nat \ {0} /\ npa <= NVar /\ npa <= NParallel
BY SizeAssumption DEF npa

LEMMA Np1Facts == np1 \in Nat \ {0} /\ NParallel * np1 > NVar
<1> DEFINE q == NVar \div NParallel
<1>1. NVar \in Nat /\ NParallel \in Nat /\ NParallel > 0
  BY SizeAssumption
<1>2. q \in Nat /\ NVar < NParallel * (q + 1)
  BY <1>1
<1> QED  BY <1>1, <1>2 DEF np1

\* Two numbers of 1..n that are the same modulo n are one.
LEMMA SameRemainder ==
  ASSUME NEW n \in Nat \ {0}, NEW k \in 1..n, NEW l \in 1..n, NEW u \in Int,
         u >= k, u >= l, (u - k) % n = 0, (u - l) % n = 0
  PROVE  k = l
<1> DEFINE a == (u - k) \div n
           b == (u - l) \div n
<1>1. a \in Int /\ b \in Int /\ u - k = n * a /\ u - l = n * b
  BY Z3
<1> HIDE DEF a, b
<1>2. l - k = n * (a - b)
  BY <1>1
<1>3. CASE a - b >= 1
  <2>1. n * (a - b) >= n
    BY <1>1, <1>3
  <2> QED  BY <1>2, <2>1
<1>4. CASE a - b <= -1
  <2>1. n * (a - b) <= -n
    BY <1>1, <1>4
  <2> QED  BY <1>2, <2>1
<1>5. CASE a = b
  BY <1>1, <1>2, <1>5
<1> QED  BY <1>1, <1>3, <1>4, <1>5

\* Each number is the same modulo n as one of 1..n.
LEMMA SomeRemainder ==
  ASSUME NEW n \in Nat \ {0}, NEW u \in Nat \ {0}
  PROVE  \E k \in 1..n : u >= k /\ (u - k) % n = 0
<1> DEFINE q == (u - 1) \div n
           k == ((u - 1) % n) + 1
<1>1. q \in Nat /\ (u - 1) % n \in 0..(n - 1) /\ u - 1 = (n * q) + ((u - 1) % n)
  BY Z3
<1>2. k \in 1..n /\ u - k = n * q
  BY <1>1
<1>3. n * q >= 0 /\ (n * q) % n = 0
  BY <1>1
<1> HIDE DEF q, k
<1> QED  BY <1>2, <1>3

LEMMA UnitsFacts ==
  /\ \A s : Units(s) \subseteq Int
  /\ \A s : s # "OffMom" => Units(s) = 1..NVar
  /\ \A s, k : Share(s, k) \subseteq Units(s)
<1>1. Momenta \subseteq Int /\ Families \subseteq Int /\ 1..NVar \subseteq Int
  BY FamiliesAssumption, SizeAssumption DEF Momenta
<1>2. Positive \subseteq Momenta \cup Families
  BY DEF Positive
<1> QED  BY <1>1, <1>2 DEF Units, Share

\* Two processes have no unit in common.
LEMMA SharesDisjoint ==
  ASSUME NEW s \in Sites, NEW i, Limit(s, i),
         NEW k \in 1..i, NEW l \in 1..(i + 1), k # l
  PROVE  Share(s, k) \cap Share(s, l) = {}
<1> SUFFICES ASSUME NEW u \in Share(s, k), u \in Share(s, l) PROVE FALSE
  OBVIOUS
<1>1. i \in Nat /\ k \in Nat /\ l \in Nat /\ npa \in Nat \ {0} /\ np1 \in Nat \ {0}
      /\ k \in 1..(i + 1) /\ u \in Int
  BY NpaFacts, Np1Facts, SizeAssumption, UnitsFacts DEF Limit
<1>2. CASE s \in Matching
  <2>1. k \in 1..npa /\ l \in 1..npa
    BY <1>1, <1>2 DEF Limit
  <2>2. u >= k /\ u >= l /\ (u - k) % npa = 0 /\ (u - l) % npa = 0
    BY <1>2, SiteFacts DEF Share, Stride
  <2> QED  BY <1>1, <2>1, <2>2, SameRemainder
<1>3. CASE s = "Spectrum"
  <2>1. NVar >= NParallel /\ i + 1 <= npa
    BY <1>1, <1>3, SizeAssumption DEF Limit, npa
  <2>2. k \in 1..npa /\ l \in 1..npa
    BY <1>1, <2>1
  <2>3. u >= k /\ u >= l /\ (u - k) % npa = 0 /\ (u - l) % npa = 0
    BY <1>3, <2>1, SizeAssumption DEF Share, Stride
  <2> QED  BY <1>1, <2>2, <2>3, SameRemainder
<1>4. CASE s = "Track"
  <2>1. /\ (k - 1) * np1 < u /\ u <= k * np1
        /\ (l - 1) * np1 < u /\ u <= l * np1
    BY <1>4 DEF Share
  <2>2. CASE k <= l - 1
    <3>1. k * np1 <= (l - 1) * np1
      BY <1>1, <2>2
    <3> HIDE DEF np1
    <3>2. k * np1 \in Int /\ (l - 1) * np1 \in Int
      BY <1>1
    <3> QED  BY <1>1, <2>1, <3>1, <3>2
  <2>3. CASE l <= k - 1
    <3>1. l * np1 <= (k - 1) * np1
      BY <1>1, <2>3
    <3>2. l * np1 \in Int /\ (k - 1) * np1 \in Int
      BY <1>1
    <3> QED  BY <1>1, <2>1, <3>1, <3>2
  <2> QED  BY <1>1, <2>2, <2>3
<1>5. CASE s = "OffMom"
  <2>1. k = 1 /\ l = 2
    BY <1>1, <1>5 DEF Limit
  <2> QED  BY <1>5, <2>1 DEF Share
<1> QED  BY <1>2, <1>3, <1>4, <1>5, SiteFacts

\* When no more is forked the shares of the workers and the one after them
\* are all there is.
LEMMA SharesCover ==
  ASSUME NEW s \in Sites, NEW i, Limit(s, i), NEW r, ~ More(s, i, r),
         s = "OffMom" => i = 1,
         s = "Spectrum" /\ NVar >= NParallel => i = NParallel - 1,
         NEW u \in Units(s)
  PROVE  \E k \in 1..(i + 1) : u \in Share(s, k)
<1>1. i \in Nat /\ npa \in Nat \ {0} /\ np1 \in Nat \ {0}
  BY NpaFacts, Np1Facts, SizeAssumption DEF Limit
<1>2. CASE s \in Matching
  <2>1. u \in Nat \ {0} /\ i + 1 = npa
    <3>1. s # "OffMom" /\ s # "Track" /\ s # "Spectrum"
      BY <1>2, SiteFacts
    <3>2. u \in 1..NVar
      BY <3>1, UnitsFacts
    <3>3. i <= npa - 1 /\ ~ (i < npa - 1)
      BY <1>2, <3>1 DEF Limit, More
    <3> QED  BY <1>1, <3>2, <3>3, SizeAssumption
  <2>2. PICK k \in 1..npa : u >= k /\ (u - k) % npa = 0
    BY <1>1, <2>1, SomeRemainder
  <2>3. u \in Share(s, k)
    BY <1>2, <2>2, SiteFacts DEF Share, Stride
  <2> QED  BY <2>1, <2>2, <2>3
<1>3. CASE s = "Spectrum" /\ NVar >= NParallel
  <2>1. u \in Nat \ {0} /\ i + 1 = npa
    BY <1>1, <1>3, UnitsFacts, SizeAssumption DEF npa
  <2>2. PICK k \in 1..npa : u >= k /\ (u - k) % npa = 0
    BY <1>1, <2>1, SomeRemainder
  <2>3. u \in Share(s, k)
    BY <1>3, <2>2, SizeAssumption DEF Share, Stride
  <2> QED  BY <2>1, <2>2, <2>3
<1>4. CASE s = "Spectrum" /\ NVar < NParallel
  <2>1. u \in Nat \ {0} /\ 1 \in 1..(i + 1)
    BY <1>1, <1>4, UnitsFacts, SizeAssumption
  <2>2. PICK k \in 1..1 : u >= k /\ (u - k) % 1 = 0
    BY <2>1, SomeRemainder
  <2>3. u \in Share(s, 1)
    BY <1>4, <2>2 DEF Share, Stride
  <2> QED  BY <2>1, <2>3
<1>5. CASE s = "Track"
  <2> DEFINE q == (u - 1) \div np1
             x == (u - 1) % np1
  <2>1. u \in Nat \ {0} /\ u <= NVar /\ NVar \in Nat
    BY <1>5, UnitsFacts, SizeAssumption
  <2>2. q \in Nat /\ x \in 0..(np1 - 1) /\ u - 1 = (np1 * q) + x
    BY <1>1, <2>1, Z3
  <2> HIDE DEF q, x
  <2>3. i * np1 + np1 >= NVar
    BY <1>1, <1>5, <2>1, SiteFacts DEF More
  <2>4. (i + 1) * np1 = i * np1 + np1
    BY <1>1
  <2>5. q + 1 <= i + 1
    <3> SUFFICES ASSUME q >= i + 1 PROVE FALSE
      BY <1>1, <2>2
    <3>1. np1 * q >= (i + 1) * np1 /\ np1 * q \in Int
      BY <1>1, <2>2
    <3>2. i * np1 \in Int
      BY <1>1
    <3> QED  BY <1>1, <2>1, <2>2, <2>3, <2>4, <3>1, <3>2
  <2>6. (q + 1) * np1 = (np1 * q) + np1 /\ (q + 1 - 1) * np1 = np1 * q /\ np1 * q \in Int
    BY <1>1, <2>2
  <2>7. u \in Share(s, q + 1)
    BY <1>1, <1>5, <2>1, <2>2, <2>6, UnitsFacts DEF Share
  <2> QED  BY <1>1, <2>2, <2>5, <2>7
<1>6. CASE s = "OffMom"
  BY <1>6 DEF Share
<1> QED  BY <1>2, <1>3, <1>4, <1>5, <1>6, SizeAssumption, SiteFacts

\* A fork that is tried is that of a worker.
LEMMA LimitNext ==
  ASSUME NEW s \in Sites, NEW i, Limit(s, i), NEW r, More(s, i, r)
  PROVE  Limit(s, i + 1) /\ i + 1 \in Workers
<1>1. i \in Nat /\ npa \in Nat \ {0} /\ npa <= NParallel /\ NParallel \in Nat \ {0}
      /\ np1 \in Nat \ {0} /\ NVar \in Nat
  BY NpaFacts, Np1Facts, SizeAssumption DEF Limit
<1>2. CASE s \in Matching
  <2>1. s # "OffMom" /\ s # "Track" /\ s # "Spectrum"
    BY <1>2, SiteFacts
  <2>2. i < npa - 1
    BY <1>2, <2>1 DEF More
  <2> QED  BY <1>1, <2>1, <2>2 DEF Limit, Workers
<1>3. CASE s = "Spectrum"
  <2>1. s \notin Matching
    BY <1>3, SiteFacts
  <2>2. NVar >= NParallel /\ i + 1 < NParallel
    BY <1>3, <2>1 DEF More
  <2> QED  BY <1>1, <1>3, <2>1, <2>2 DEF Limit, Workers
<1>4. CASE s = "OffMom"
  <2>1. s \notin Matching
    BY <1>4, SiteFacts
  <2>2. NParallel > 1 /\ i < 1
    BY <1>4, <2>1 DEF More
  <2> QED  BY <1>1, <1>4, <2>1, <2>2 DEF Limit, Workers
<1>5. CASE s = "Track"
  <2>1. s \notin Matching
    BY <1>5, SiteFacts
  <2>2. i * np1 + np1 < NVar
    BY <1>5, <2>1 DEF More
  <2>3. (i + 1) * np1 = i * np1 + np1
    BY <1>1
  <2>4. i + 1 <= NParallel - 1
    <3> SUFFICES ASSUME i + 1 >= NParallel PROVE FALSE
      BY <1>1
    <3>1. (i + 1) * np1 >= NParallel * np1
      BY <1>1
    <3>2. NParallel * np1 \in Int /\ (i + 1) * np1 \in Int /\ NParallel * np1 > NVar
      BY <1>1, Np1Facts
    <3> QED  BY <1>1, <2>2, <2>3, <3>1, <3>2
  <2> QED  BY <1>1, <1>5, <2>1, <2>2, <2>3, <2>4 DEF Limit, Workers
<1> QED  BY <1>2, <1>3, <1>4, <1>5, SiteFacts

\* Each share of tffscalc has what its units start from, ...
LEMMA SharesClosed ==
  ASSUME NEW k
  PROVE  Closed(Share("OffMom", k)) /\ Closed(Units("OffMom"))
<1>1. /\ \A u \in Momenta : u \in Int /\ u # 0 /\ u \notin Families /\ -NFr <= u /\ u <= NFr
      /\ \A f \in Families : f \in Int /\ f \notin Momenta /\ Jfam[f] \in -NFr..NFr
      /\ NFr \in Nat
  BY FamiliesAssumption, SizeAssumption DEF Momenta
<1>2. \A v \in Int : -NFr <= v /\ v <= NFr => v \in Momenta \cup {0}
  BY <1>1 DEF Momenta
<1>3. \A u \in Momenta : /\ u > 0 => Base(u) = u - 1 /\ u - 1 \in Momenta \cup {0}
                         /\ ~ (u > 0) => Base(u) = u + 1 /\ u + 1 \in Momenta \cup {0}
  BY <1>1, <1>2 DEF Base
<1>4. \A f \in Families : Base(f) = Jfam[f] /\ Jfam[f] \in Momenta \cup {0}
  BY <1>1, <1>2 DEF Base
<1>5. /\ \A u : u \in Positive <=>
             (u \in Momenta /\ u > 0) \/ (u \in Families /\ Jfam[u] >= 0)
      /\ \A u : u \in Units("OffMom") <=> u \in Momenta \/ u \in Families
  BY DEF Positive, Units
<1>6. Closed(Positive)
  <2> SUFFICES ASSUME NEW u \in Positive PROVE Base(u) \in Positive \cup {0}
    BY DEF Closed
  <2>1. CASE u \in Momenta
    BY <1>1, <1>3, <1>5, <2>1
  <2>2. CASE u \in Families
    BY <1>1, <1>4, <1>5, <2>2
  <2> QED  BY <1>5, <2>1, <2>2
<1>7. Closed(Units("OffMom"))
  BY <1>3, <1>4, <1>5 DEF Closed
<1>8. Closed(Units("OffMom") \ Positive)
  <2> SUFFICES ASSUME NEW u \in Units("OffMom"), u \notin Positive
               PROVE  Base(u) \in (Units("OffMom") \ Positive) \cup {0}
    BY DEF Closed
  <2>1. CASE u \in Momenta
    BY <1>1, <1>3, <1>5, <2>1
  <2>2. CASE u \in Families
    BY <1>1, <1>4, <1>5, <2>2
  <2> QED  BY <1>5, <2>1, <2>2
<1>9. Share("OffMom", k) \in {Positive, Units("OffMom") \ Positive}
  BY DEF Share
<1> QED  BY <1>6, <1>7, <1>8, <1>9

\* ... and it is done earlier.
LEMMA BaseEarlier ==
  ASSUME site = "OffMom", NEW u \in Units("OffMom"), Base(u) # 0
  PROVE  Base(u) # u /\ Earlier(Base(u), u)
<1>1. /\ \A v \in Momenta : v \in Int /\ v # 0 /\ v \notin Families /\ -NFr <= v /\ v <= NFr
      /\ \A f \in Families : f \in Int /\ f \notin Momenta /\ Jfam[f] \in -NFr..NFr
      /\ NFr \in Nat
      /\ \A v \in Int : v # 0 /\ -NFr <= v /\ v <= NFr => v \in Momenta
  BY FamiliesAssumption, SizeAssumption DEF Momenta
<1>2. CASE u \in Momenta
  <2>1. Base(u) = (IF u > 0 THEN u - 1 ELSE u + 1) /\ u \in Int /\ -NFr <= u /\ u <= NFr /\ u # 0
    BY <1>1, <1>2 DEF Base
  <2>2. Base(u) \in Momenta
    BY <1>1, <2>1
  <2> QED  BY <1>2, <2>1, <2>2 DEF Earlier
<1>3. CASE u \in Families
  <2>1. Base(u) = Jfam[u] /\ Jfam[u] \in Momenta /\ u \notin Momenta
    BY <1>1, <1>3 DEF Base
  <2> QED  BY <1>3, <2>1 DEF Earlier
<1> QED  BY <1>2, <1>3 DEF Units

-----------------------------------------------------------------------------
(* The steps.                                                              *)

LEMMA ProcFacts ==
  /\ \A w \in Workers : w \in Nat \ {0} /\ w \in Procs /\ w # Parent /\ w \notin Strangers
  /\ \A p \in Procs : p \in Nat /\ p # -1 /\ (p = Parent \/ p \in Workers)
  /\ \A c \in Strangers : c # Parent /\ c # -1 /\ c \notin Workers /\ c \notin Procs
  /\ Parent \in Procs /\ Parent \notin Strangers /\ Parent = 0
BY StrangersAssumption, SizeAssumption DEF Workers, Procs, Parent

LEMMA IpFacts == ASSUME Limit(site, ip) PROVE ip \in Nat
BY SizeAssumption DEF Limit

LEMMA ForkInv ==
  ASSUME IInv, Fork
  PROVE  IInv'
<1> DEFINE n == ip + 1
           S == Share(site, n)
<1>1. More(site, ip, ipr) /\ pc[Parent] = "fork"
  BY DEF Fork, Forking, More
<1>2. Limit(site, n) /\ n \in Workers /\ n \in Procs /\ n # Parent /\ ip \in Nat
  BY <1>1, LimitNext, ProcFacts, IpFacts DEF IInv, Typed
<1>3. Idle(n) /\ n > ip
  BY <1>2 DEF IInv, WorkerInv, Unforked
<1>4. S \in SUBSET Units(site)
  BY UnitsFacts
<1>5. /\ ip' = n /\ ipr' = n
      /\ pc' = [pc EXCEPT ![n] = "work"] /\ todo' = [todo EXCEPT ![n] = S]
      /\ npr' = [npr EXCEPT ![n] = n]
      /\ UNCHANGED <<site, done, status, waits, irtc, absent, stolen>>
  BY DEF Fork
<1> HIDE DEF S
<1>6. /\ pc'[n] = "work" /\ todo'[n] = S /\ npr'[n] = n /\ done'[n] = {} /\ pc'[Parent] = "fork"
      /\ \A p \in Procs \ {n} : pc'[p] = pc[p] /\ todo'[p] = todo[p]
      /\ \A w \in Workers \ {n} : npr'[w] = npr[w]
  BY <1>1, <1>2, <1>3, <1>5, ProcFacts DEF IInv, Typed, Idle
<1>7. Typed'
  <2>1. /\ pc' \in [Procs \cup Strangers ->
               {"none", "run", "fork", "work", "ended", "wait", "use", "stopped"}]
        /\ todo' \in [Procs -> SUBSET Units(site)] /\ npr' \in [Workers -> {-1, 0} \cup Workers]
    BY <1>2, <1>4, <1>5 DEF IInv, Typed
  <2>2. \A w \in Workers : pc'[w] \in {"none", "work", "ended"}
    BY <1>6, ProcFacts DEF IInv, Typed
  <2> QED  BY <1>2, <1>5, <1>6, <2>1, <2>2 DEF IInv, Typed
<1> HIDE DEF n
<1>8. Limit(site, ip)' /\ LastFork'
  <2>1. n > 0
    BY <1>2 DEF n
  <2> QED  BY <1>2, <1>5, <2>1 DEF LastFork
<1>9. ASSUME NEW w \in Workers PROVE WorkerInv(w)'
  <2>1. w \in Nat /\ w \in Procs /\ n \in Nat /\ WorkerInv(w)
    BY <1>2, ProcFacts DEF IInv
  <2>2. CASE w = n
    <3>1. ~ (w > ip') /\ w # -1 /\ w # 0
      BY <1>2, <1>5, <2>2, ProcFacts
    <3>2. npr'[w] = w /\ pc'[w] = "work" /\ todo'[w] = S /\ done'[w] = {}
      BY <1>6, <2>2
    <3>3. S = Share(site', w)
      BY <1>5, <2>2 DEF S
    <3>4. todo'[w] \cup done'[w] = Share(site', w)
      BY <3>2, <3>3
    <3> QED  BY <3>1, <3>2, <3>4 DEF WorkerInv, Unforked, Entered, Does, Noticed
  <2>3. CASE w # n
    <3>1. (w > ip' => w > ip) /\ (w <= ip' => w <= ip)
      BY <1>2, <1>5, <2>1, <2>3 DEF n
    <3>2. /\ pc'[w] = pc[w] /\ todo'[w] = todo[w] /\ npr'[w] = npr[w]
          /\ done'[w] = done[w] /\ status'[w] = status[w]
      BY <1>5, <1>6, <2>1, <2>3
    <3> QED  BY <1>1, <1>5, <1>6, <2>1, <3>1, <3>2
             DEF WorkerInv, Unforked, Entered, Does, Noticed, Idle
  <2> QED  BY <2>2, <2>3
<1>10. ParentInv'
  BY <1>1, <1>2, <1>5, <1>6, ProcFacts DEF IInv, ParentInv
<1>11. Waiting'
  BY <1>6 DEF Waiting
<1>12. Based'
  <2> SUFFICES ASSUME site = "OffMom", NEW p \in Procs
               PROVE  Closed(done[p]) /\ (pc'[p] = "work" => Closed(todo'[p] \cup done[p]))
    BY <1>5 DEF Based
  <2>1. CASE p = n
    BY <1>5, <1>6, <2>1, SharesClosed DEF IInv, Based, S
  <2>2. CASE p # n
    BY <1>6, <2>2 DEF IInv, Based
  <2> QED  BY <2>1, <2>2
<1> QED  BY <1>7, <1>8, <1>9, <1>10, <1>11, <1>12 DEF IInv

LEMMA ForkFailsInv ==
  ASSUME IInv, ForkFails
  PROVE  IInv'
<1> DEFINE n == ip + 1
<1>1. More(site, ip, ipr) /\ pc[Parent] = "fork"
  BY DEF ForkFails, Forking, More
<1>2. Limit(site, n) /\ n \in Workers /\ n \in Procs /\ n # Parent /\ ip \in Nat
  BY <1>1, LimitNext, ProcFacts, IpFacts DEF IInv, Typed
<1>3. Idle(n) /\ n > ip
  BY <1>2 DEF IInv, WorkerInv, Unforked
<1>4. /\ ipr' = -1 /\ absent' = absent \cup {n}
      /\ UNCHANGED <<site, pc, todo, done, status, waits, irtc, stolen>>
      /\ site = "Spectrum" => ip' = ip /\ npr' = npr
      /\ site # "Spectrum" => ip' = n /\ npr' = [npr EXCEPT ![n] = -1]
  BY DEF ForkFails
<1>5. /\ site # "Spectrum" => npr'[n] = -1
      /\ \A w \in Workers \ {n} : npr'[w] = npr[w]
      /\ npr' \in [Workers -> {-1, 0} \cup Workers]
      /\ ip' \in {ip, n} /\ ip' \in Nat
  BY <1>2, <1>4 DEF IInv, Typed
<1>6. Typed'
  BY <1>4, <1>5 DEF IInv, Typed
<1> HIDE DEF n
<1>7. Limit(site, ip)' /\ LastFork'
  <2>1. n > 0
    BY <1>2 DEF n
  <2> QED  BY <1>2, <1>3, <1>4, <2>1 DEF IInv, LastFork, Idle
<1>8. ASSUME NEW w \in Workers PROVE WorkerInv(w)'
  <2>1. w \in Nat /\ w \in Procs /\ n \in Nat /\ WorkerInv(w)
    BY <1>2, ProcFacts DEF IInv
  <2>2. CASE w = n /\ site # "Spectrum"
    BY <1>2, <1>3, <1>4, <1>5, <2>1, <2>2
       DEF WorkerInv, Unforked, Entered, Does, Noticed, Idle
  <2>3. CASE w # n \/ site = "Spectrum"
    <3>1. (w > ip' => w > ip) /\ (w <= ip' => w <= ip) /\ npr'[w] = npr[w]
      BY <1>2, <1>4, <1>5, <2>1, <2>3 DEF n
    <3> QED  BY <1>1, <1>4, <2>1, <3>1 
             DEF WorkerInv, Unforked, Entered, Does, Noticed, Idle
  <2> QED  BY <2>2, <2>3
<1>9. ParentInv' /\ Waiting' /\ Based'
  BY <1>1, <1>4 DEF IInv, ParentInv, Waiting, Based
<1> QED  BY <1>6, <1>7, <1>8, <1>9 DEF IInv

LEMMA ForkedInv ==
  ASSUME IInv, Forked
  PROVE  IInv'
<1> DEFINE S == ParentShare(site, ip, ipr)
<1>1. /\ ~ More(site, ip, ipr) /\ pc[Parent] = "fork"
      /\ pc' = [pc EXCEPT ![Parent] = "work"] /\ todo' = [todo EXCEPT ![Parent] = S]
      /\ UNCHANGED <<site, ip, done, npr, ipr, status, waits, irtc, absent, stolen>>
  <2>1. More(site, ip, ipr) => Forking
    BY DEF Forked, Forking, More
  <2> QED  BY <2>1 DEF Forked, ParentShare
<1>2. S \in SUBSET Units(site) /\ (site = "OffMom" => Closed(S))
  BY UnitsFacts, SharesClosed DEF ParentShare
<1> HIDE DEF S
<1>3. /\ pc'[Parent] = "work" /\ todo'[Parent] = S /\ done[Parent] = {}
      /\ \A w \in Workers : pc'[w] = pc[w] /\ todo'[w] = todo[w]
  BY <1>1, ProcFacts DEF IInv, Typed, ParentInv
<1>4. Typed'
  <2>1. /\ pc' \in [Procs \cup Strangers ->
               {"none", "run", "fork", "work", "ended", "wait", "use", "stopped"}]
        /\ todo' \in [Procs -> SUBSET Units(site)]
    BY <1>1, <1>2, ProcFacts DEF IInv, Typed
  <2> QED  BY <1>1, <1>3, <2>1 DEF IInv, Typed
<1>5. Limit(site, ip)' /\ LastFork'
  <2>1. ip > 0 => ip \in Workers
    BY SizeAssumption DEF IInv, Limit, Workers
  <2> QED  BY <1>1, <1>3, <2>1, IpFacts DEF IInv, LastFork
<1>6. ASSUME NEW w \in Workers PROVE WorkerInv(w)'
  <2>1. WorkerInv(w) /\ pc'[w] = pc[w] /\ todo'[w] = todo[w]
    BY <1>3 DEF IInv
  <2> QED  BY <1>1, <1>3, <2>1
           DEF WorkerInv, Unforked, Entered, Does, Noticed, Idle
<1>7. ParentInv'
  BY <1>1, <1>3 DEF ParentInv, S
<1>8. Waiting'
  BY <1>3 DEF Waiting
<1>9. Based'
  <2>1. \A p \in Procs : p # Parent => pc'[p] = pc[p] /\ todo'[p] = todo[p]
    BY <1>3, ProcFacts
  <2>2. S \cup done[Parent] = S
    BY <1>3
  <2> SUFFICES ASSUME site = "OffMom", NEW p \in Procs
               PROVE  Closed(done[p]) /\ (pc'[p] = "work" => Closed(todo'[p] \cup done[p]))
    BY <1>1 DEF Based
  <2>3. CASE p = Parent
    BY <1>2, <1>3, <2>2, <2>3 DEF IInv, Based
  <2>4. CASE p # Parent
    BY <2>1, <2>4 DEF IInv, Based
  <2> QED  BY <2>3, <2>4
<1> QED  BY <1>4, <1>5, <1>6, <1>7, <1>8, <1>9 DEF IInv

LEMMA DoInv ==
  ASSUME IInv, NEW p \in Procs, Do(p)
  PROVE  IInv'
<1>1. PICK u \in todo[p] : DoUnit(p, u)
  BY DEF Do
<1>2. /\ pc[p] = "work" /\ irtc' \in {irtc, 20003}
      /\ p # Parent => irtc' = irtc
      /\ UNCHANGED <<site, pc, ip, npr, ipr, status, waits, absent, stolen>>
  BY DEF Do
<1>3. todo[p] \in SUBSET Units(site) /\ done[p] \in SUBSET Units(site) /\ u \in Units(site)
  BY <1>1 DEF IInv, Typed
<1>4. /\ todo'[p] = todo[p] \ {u} /\ done'[p] = done[p] \cup {u}
      /\ \A q \in Procs : q # p => todo'[q] = todo[q] /\ done'[q] = done[q]
      /\ todo' \in [Procs -> SUBSET Units(site)] /\ done' \in [Procs -> SUBSET Units(site)]
  BY <1>1, <1>3 DEF IInv, Typed, DoUnit
<1>5. /\ \A q \in Procs : todo'[q] \cup done'[q] = todo[q] \cup done[q]
      /\ \A q \in Procs : todo[q] = {} => q # p
  BY <1>1, <1>4
<1>6. Typed'
  BY <1>2, <1>4 DEF IInv, Typed
<1>7. Limit(site, ip)' /\ LastFork'
  <2>1. ip > 0 => ip \in Procs
    BY SizeAssumption DEF IInv, Limit, Workers, Procs
  <2> QED  BY <1>2, <1>4, <1>5, <2>1, IpFacts DEF IInv, LastFork
<1>8. ASSUME NEW w \in Workers PROVE WorkerInv(w)'
  <2>1. w \in Nat /\ w \in Procs /\ WorkerInv(w) /\ ip \in Nat
    BY ProcFacts, IpFacts DEF IInv
  <2>2. Unforked(w)' /\ Entered(w)'
    <3>1. Idle(w) => Idle(w)'
      BY <1>2, <1>4, <1>5, <2>1 DEF Idle
    <3> QED  BY <1>2, <2>1, <3>1 DEF WorkerInv, Unforked, Entered
  <2>3. Does(w)'
    <3>1. pc[w] # "work" => todo'[w] = todo[w]
      BY <1>2, <1>4, <2>1
    <3> QED  BY <1>2, <1>5, <2>1, <3>1 DEF WorkerInv, Does
  <2>4. Noticed(w)'
    BY <1>2, <2>1 DEF WorkerInv, Noticed
  <2> QED  BY <1>2, <1>5, <2>1, <2>2, <2>3, <2>4 DEF WorkerInv
<1>9. ParentInv'
  <2>1. pc[Parent] # "work" => todo'[Parent] = todo[Parent] /\ done'[Parent] = done[Parent]
    BY <1>2, <1>4, ProcFacts
  <2> QED  BY <1>2, <1>5, <2>1, ProcFacts DEF IInv, ParentInv
<1>10. Waiting'
  BY <1>2 DEF IInv, Waiting, LastForkFailed
<1>11. Based'
  <2> SUFFICES ASSUME site = "OffMom", NEW q \in Procs
               PROVE  Closed(done'[q]) /\ (pc[q] = "work" => Closed(todo'[q] \cup done'[q]))
    BY <1>2 DEF Based
  <2>1. Closed(done[q]) /\ (pc[q] = "work" => Closed(todo[q] \cup done[q]))
    BY DEF IInv, Based
  <2>2. CASE q # p
    BY <1>4, <2>1, <2>2
  <2>3. CASE q = p
    <3>1. Base(u) \in todo[p] \cup done[p] \cup {0}
      BY <1>1, <1>2, <2>1, <2>3 DEF Closed
    <3>2. Base(u) # 0 => Base(u) \notin todo[p]
      BY <1>1, <1>3, BaseEarlier DEF DoUnit
    <3>3. Closed(done[p] \cup {u})
      BY <2>1, <2>3, <3>1, <3>2 DEF Closed
    <3> QED  BY <1>4, <1>5, <2>1, <2>3, <3>3
  <2> QED  BY <2>2, <2>3
<1> QED  BY <1>6, <1>7, <1>8, <1>9, <1>10, <1>11 DEF IInv

\* A step of a child that only ends, and gives up units or not.
LEMMA ChildInv ==
  ASSUME IInv, NEW w \in Workers, pc[w] # "none", pc' = [pc EXCEPT ![w] = "ended"],
         UNCHANGED <<site, ip, todo, npr, ipr, waits, irtc>>,
         NEW D \in {done[w], {}}, done' = [done EXCEPT ![w] = D],
         NEW s \in {0, 1}, status' = [status EXCEPT ![w] = s],
         absent \subseteq absent',
         \/ w \in absent'
         \/ s = 1 /\ (site \in {"Spectrum", "OffMom"} \/ D = done[w])
         \/ s = status[w] /\ todo[w] = {} /\ D = done[w]
  PROVE  IInv'
<1>1. /\ w \in Nat \ {0} /\ w \in Procs /\ w # Parent /\ ip \in Nat /\ WorkerInv(w)
      /\ Parent \in Procs
  BY ProcFacts, IpFacts DEF IInv
<1>2. /\ pc'[w] = "ended" /\ status'[w] = s /\ done'[w] = D /\ pc'[Parent] = pc[Parent]
      /\ \A p \in Procs \ {w} : pc'[p] = pc[p] /\ done'[p] = done[p]
      /\ \A v \in Workers \ {w} : status'[v] = status[v]
      /\ done'[Parent] = done[Parent]
  BY <1>1, ProcFacts DEF IInv, Typed
<1>3. Typed'
  <2>1. /\ pc' \in [Procs \cup Strangers ->
               {"none", "run", "fork", "work", "ended", "wait", "use", "stopped"}]
        /\ done' \in [Procs -> SUBSET Units(site)]
        /\ status' \in [Workers \cup Strangers -> {0, 1}]
    BY <1>1 DEF IInv, Typed
  <2>2. \A v \in Workers : pc'[v] \in {"none", "work", "ended"}
    BY <1>2, ProcFacts DEF IInv, Typed
  <2> QED  BY <1>2, <2>1, <2>2 DEF IInv, Typed
<1>4. \A p \in Procs : done[p] = {} => done'[p] = {}
  BY <1>2
<1>5. Limit(site, ip)' /\ LastFork'
  <2>1. ip > 0 => ip \in Procs
    BY SizeAssumption DEF IInv, Limit, Workers, Procs
  <2> QED  BY <1>1, <1>4, <2>1 DEF IInv, LastFork
<1>6. ASSUME NEW v \in Workers PROVE WorkerInv(v)'
  <2>1. CASE v = w
    <3>1. w <= ip /\ npr[w] = w
      BY <1>1 DEF WorkerInv, Unforked, Entered, Idle
    <3>2. ~ (w > ip) /\ w # -1 /\ w # 0
      BY <1>1, <3>1
    <3>3. todo[w] \cup D \subseteq Share(site, w)
      BY <1>1 DEF WorkerInv
    <3>4. \/ w \in absent'
          \/ s = 1 /\ site \in {"Spectrum", "OffMom"}
          \/ todo[w] \cup D = Share(site, w) /\ (s # 1 => todo[w] = {})
      BY <1>1, <3>1 DEF WorkerInv, Does
    <3> QED  BY <1>1, <1>2, <2>1, <3>1, <3>2, <3>3, <3>4
             DEF WorkerInv, Unforked, Entered, Does, Noticed
  <2>2. CASE v # w
    <3>1. v \in Nat /\ v \in Procs /\ WorkerInv(v)
      BY ProcFacts DEF IInv
    <3>2. pc'[v] = pc[v] /\ done'[v] = done[v] /\ status'[v] = status[v]
      BY <1>2, <2>2, <3>1
    <3> QED  BY <1>2, <3>1, <3>2 DEF WorkerInv, Unforked, Entered, Does, Noticed, Idle
  <2> QED  BY <2>1, <2>2
<1>7. ParentInv'
  BY <1>2 DEF IInv, ParentInv
<1>8. Waiting'
  BY <1>2 DEF IInv, Waiting, LastForkFailed
<1>9. Based'
  <2> SUFFICES ASSUME site = "OffMom", NEW p \in Procs
               PROVE  Closed(done'[p]) /\ (pc'[p] = "work" => Closed(todo[p] \cup done'[p]))
    BY DEF Based
  <2>1. Closed({})
    BY DEF Closed
  <2> QED  BY <1>2, <2>1 DEF IInv, Based
<1> QED  BY <1>3, <1>5, <1>6, <1>7, <1>8, <1>9 DEF IInv

LEMMA WorkerEndsInv ==
  ASSUME IInv, NEW w \in Workers, WorkerEnds(w) \/ WorkerStops(w) \/ SeedFails(w)
  PROVE  IInv'
<1>1. /\ w \in Procs /\ done[w] = done[w] /\ done = [done EXCEPT ![w] = done[w]]
      /\ status = [status EXCEPT ![w] = status[w]] /\ status[w] \in {0, 1}
  BY ProcFacts DEF IInv, Typed
<1>2. CASE WorkerEnds(w)
  <2>1. /\ pc[w] # "none" /\ pc' = [pc EXCEPT ![w] = "ended"] /\ todo[w] = {}
        /\ UNCHANGED <<site, ip, todo, npr, ipr, waits, irtc>>
        /\ done' = [done EXCEPT ![w] = done[w]]
        /\ status' = [status EXCEPT ![w] = status[w]] /\ absent' = absent
    BY <1>1, <1>2 DEF WorkerEnds
  <2> QED  BY <1>1, <2>1, ChildInv
<1>3. CASE WorkerStops(w)
  <2> DEFINE D == IF site \in {"Spectrum", "OffMom"} THEN {} ELSE done[w]
  <2>1. /\ pc[w] # "none" /\ pc' = [pc EXCEPT ![w] = "ended"]
        /\ UNCHANGED <<site, ip, todo, npr, ipr, waits, irtc>>
        /\ done' = [done EXCEPT ![w] = D]
        /\ status' = [status EXCEPT ![w] = 1] /\ absent' = absent
    BY <1>1, <1>3 DEF WorkerStops
  <2>2. D \in {done[w], {}} /\ (site \in {"Spectrum", "OffMom"} \/ D = done[w])
    OBVIOUS
  <2> HIDE DEF D
  <2>3. 1 \in {0, 1} /\ absent \subseteq absent'
    BY <2>1
  <2> QED  BY <2>1, <2>2, <2>3, ChildInv
<1>4. CASE SeedFails(w)
  <2>1. /\ pc[w] # "none" /\ pc' = [pc EXCEPT ![w] = "ended"]
        /\ UNCHANGED <<site, ip, todo, npr, ipr, waits, irtc>>
        /\ done' = [done EXCEPT ![w] = done[w]]
        /\ status' = [status EXCEPT ![w] = status[w]] /\ absent' = absent \cup {w}
    BY <1>1, <1>4 DEF SeedFails
  <2>2. w \in absent' /\ absent \subseteq absent'
    BY <2>1
  <2> QED  BY <1>1, <2>1, <2>2, ChildInv
<1> QED  BY <1>2, <1>3, <1>4

\* A worker or another child is waited for by somebody else, or such a child
\* ends: nothing the parent knows of changes.
LEMMA AsideInv ==
  ASSUME IInv, NEW c \in Workers \cup Strangers,
         c \in Workers => pc[c] = "ended" /\ status' = status,
         NEW to \in {"none", "ended"}, c \in Workers => to = "none",
         pc' = [pc EXCEPT ![c] = to],
         status' \in [Workers \cup Strangers -> {0, 1}],
         \A w \in Workers : status'[w] = status[w],
         UNCHANGED <<site, ip, todo, done, npr, ipr, waits, irtc, absent>>
  PROVE  IInv'
<1>1. c # Parent /\ ip \in Nat /\ Parent \in Procs
  BY ProcFacts, IpFacts DEF IInv
<1>2. /\ pc'[Parent] = pc[Parent]
      /\ \A w \in Workers : pc'[w] = pc[w] \/ (w = c /\ pc[w] = "ended" /\ pc'[w] = "none")
      /\ \A p \in Procs : pc'[p] = "work" => pc[p] = "work"
  BY <1>1, ProcFacts DEF IInv, Typed
<1>3. Typed'
  <2>1. pc' \in [Procs \cup Strangers ->
               {"none", "run", "fork", "work", "ended", "wait", "use", "stopped"}]
    <3>1. c \in Procs \cup Strangers /\ pc \in [Procs \cup Strangers ->
               {"none", "run", "fork", "work", "ended", "wait", "use", "stopped"}]
      BY ProcFacts DEF IInv, Typed
    <3> QED  BY <3>1
  <2> QED  BY <1>2, <2>1 DEF IInv, Typed
<1>4. ASSUME NEW w \in Workers PROVE WorkerInv(w)'
  <2>1. WorkerInv(w)
    BY DEF IInv
  <2>2. CASE pc'[w] = pc[w]
    BY <1>2, <2>1, <2>2 DEF WorkerInv, Unforked, Entered, Does, Noticed, Idle
  <2>3. CASE w = c /\ pc[w] = "ended" /\ pc'[w] = "none"
    <3>1. w <= ip /\ npr[w] = w
      BY <1>1, <2>1, <2>3, ProcFacts DEF WorkerInv, Unforked, Entered, Idle
    <3>2. ~ (w > ip) /\ w # -1 /\ w # 0
      BY <1>1, <3>1, ProcFacts
    <3> QED  BY <2>1, <2>3, <3>1, <3>2 DEF WorkerInv, Unforked, Entered, Does, Noticed
  <2> QED  BY <1>2, <2>2, <2>3
<1>5. Limit(site, ip)' /\ LastFork' /\ ParentInv' /\ Waiting'
  BY <1>2 DEF IInv, LastFork, ParentInv, Waiting, LastForkFailed
<1>6. Based'
  BY <1>2 DEF IInv, Based
<1> QED  BY <1>3, <1>4, <1>5, <1>6 DEF IInv

LEMMA ChildrenInv ==
  ASSUME IInv
  PROVE  /\ \A w \in Workers : Steal(w) => IInv'
         /\ \A c \in Strangers : StrangerEnds(c) \/ WaitStranger(c) => IInv'
<1>1. ASSUME NEW w \in Workers, Steal(w) PROVE IInv'
  <2>1. /\ pc[w] = "ended" /\ pc' = [pc EXCEPT ![w] = "none"]
        /\ UNCHANGED <<site, ip, todo, done, npr, ipr, status, waits, irtc, absent>>
    BY <1>1 DEF Steal
  <2>2. status' \in [Workers \cup Strangers -> {0, 1}] /\ w \in Workers \cup Strangers
        /\ "none" \in {"none", "ended"} /\ \A v \in Workers : status'[v] = status[v]
    BY <2>1 DEF IInv, Typed
  <2> QED  BY <2>1, <2>2, AsideInv
<1>2. ASSUME NEW c \in Strangers, WaitStranger(c) PROVE IInv'
  <2>1. /\ pc' = [pc EXCEPT ![c] = "none"]
        /\ UNCHANGED <<site, ip, todo, done, npr, ipr, status, waits, irtc, absent>>
    BY <1>2 DEF WaitStranger
  <2>2. /\ status' \in [Workers \cup Strangers -> {0, 1}] /\ c \in Workers \cup Strangers
        /\ "none" \in {"none", "ended"} /\ c \notin Workers
        /\ \A v \in Workers : status'[v] = status[v]
    BY <2>1, ProcFacts DEF IInv, Typed
  <2> QED  BY <2>1, <2>2, AsideInv
<1>3. ASSUME NEW c \in Strangers, StrangerEnds(c) PROVE IInv'
  <2>1. PICK s \in {0, 1} : status' = [status EXCEPT ![c] = s]
    BY <1>3 DEF StrangerEnds
  <2>2. /\ pc' = [pc EXCEPT ![c] = "ended"]
        /\ UNCHANGED <<site, ip, todo, done, npr, ipr, waits, irtc, absent>>
    BY <1>3 DEF StrangerEnds
  <2>3. /\ status' \in [Workers \cup Strangers -> {0, 1}] /\ c \in Workers \cup Strangers
        /\ "ended" \in {"none", "ended"} /\ c \notin Workers
        /\ \A v \in Workers : status'[v] = status[v]
    BY <2>1, ProcFacts DEF IInv, Typed
  <2> QED  BY <2>2, <2>3, AsideInv
<1> QED  BY <1>1, <1>2, <1>3

\* Ended counts the workers waited for: none at first, one more each time.
LEMMA EndedFacts ==
  ASSUME NEW i \in Nat, NEW n
  PROVE  /\ IsFiniteSet(Ended(i, n)) /\ Cardinality(Ended(i, n)) \in 0..i
         /\ Cardinality(Ended(i, n)) = i => \A w \in 1..i : n[w] = 0
         /\ (\A w \in 1..i : n[w] # 0) => Cardinality(Ended(i, n)) = 0
<1>1. /\ Ended(i, n) \subseteq 1..i /\ IsFiniteSet(1..i) /\ Cardinality(1..i) = i
      /\ \A w : w \in Ended(i, n) <=> w \in 1..i /\ n[w] = 0
  BY FS_Interval DEF Ended
<1>2. /\ IsFiniteSet(Ended(i, n)) /\ Cardinality(Ended(i, n)) <= i
      /\ Cardinality(Ended(i, n)) = i => Ended(i, n) = 1..i
      /\ Cardinality(Ended(i, n)) \in Nat
  BY <1>1, FS_Subset, FS_CardinalityType
<1>3. (\A w \in 1..i : n[w] # 0) => Ended(i, n) = {}
  BY <1>1
<1> QED  BY <1>1, <1>2, <1>3, FS_EmptySet

LEMMA ParentDoneInv ==
  ASSUME IInv, ParentDone
  PROVE  IInv'
<1>1. /\ pc[Parent] = "work" /\ todo[Parent] = {}
      /\ UNCHANGED <<site, ip, todo, done, npr, ipr, status, absent, stolen>>
      /\ waits' = (IF site = "Spectrum" THEN IF NVar >= NParallel THEN NParallel - 1 ELSE 0
                   ELSE IF ipr > 0 THEN ip ELSE 0)
      /\ irtc' \in {0, irtc}
      /\ pc' = [pc EXCEPT ![Parent] = IF waits' > 0 THEN "wait" ELSE "use"]
  <2>1. waits' = (IF site = "Spectrum" THEN IF NVar >= NParallel THEN NParallel - 1 ELSE 0
                  ELSE IF ipr > 0 THEN ip ELSE 0)
    BY DEF ParentDone
  <2>2. irtc' \in {0, irtc}
    BY DEF ParentDone
  <2> QED  BY <2>1, <2>2 DEF ParentDone
<1>2. /\ \A p \in Procs \ {Parent} : pc'[p] = pc[p]
      /\ pc'[Parent] = IF waits' > 0 THEN "wait" ELSE "use"
  BY <1>1, ProcFacts DEF IInv, Typed
<1>3. ip \in Nat /\ ip <= NParallel - 1 /\ NParallel \in Nat \ {0}
      /\ ip \in 0..(NParallel - 1) /\ waits' \in 0..(NParallel - 1)
  BY <1>1, SizeAssumption DEF IInv, Limit
<1>4. Typed'
  <2>1. /\ pc' \in [Procs \cup Strangers ->
               {"none", "run", "fork", "work", "ended", "wait", "use", "stopped"}]
        /\ \A w \in Workers : pc'[w] \in {"none", "work", "ended"}
        /\ pc'[Parent] \in {"wait", "use"}
    BY <1>1, <1>2, ProcFacts DEF IInv, Typed
  <2> QED  BY <1>1, <1>3, <2>1 DEF IInv, Typed
<1>5. \A w \in Workers : w <= ip => npr[w] # 0
  BY <1>1 DEF IInv, WorkerInv, Entered
<1>6. ASSUME NEW w \in Workers PROVE WorkerInv(w)'
  <2>1. WorkerInv(w) /\ pc'[w] = pc[w]
    BY <1>2, ProcFacts DEF IInv
  <2> QED  BY <1>1, <1>5, <2>1 DEF WorkerInv, Unforked, Entered, Does, Noticed, Idle
<1>7. Limit(site, ip)' /\ LastFork' /\ ParentInv'
  BY <1>1, <1>2 DEF IInv, LastFork, ParentInv
<1>8. Cardinality(Ended(ip, npr)) = 0
  <2>1. \A w \in 1..ip : w \in Workers /\ w <= ip
    BY <1>3 DEF Workers
  <2> QED  BY <1>3, <1>5, <2>1, EndedFacts
<1>9. Waiting'
  <2>1. CASE waits' > 0
    <3>1. waits' = ToEnd(site, ip) /\ (site = "Spectrum" => NVar >= NParallel)
      BY <1>1, <2>1 DEF ToEnd
    <3> QED  BY <1>1, <1>2, <1>3, <1>8, <2>1, <3>1 DEF Waiting
  <2>2. CASE ~ (waits' > 0)
    <3>1. waits' = 0 /\ pc'[Parent] = "use"
      BY <1>2, <1>3, <2>2
    <3>2. ~ LastForkFailed => ip = 0 /\ (site = "Spectrum" /\ NVar >= NParallel => ip = NParallel - 1)
      <4>1. CASE site = "Spectrum"
        BY <1>1, <1>3, <3>1, <4>1, SizeAssumption DEF IInv, Limit
      <4>2. CASE site # "Spectrum"
        BY <1>1, <1>3, <3>1, <4>2 DEF LastForkFailed, IInv, LastFork
      <4> QED  BY <4>1, <4>2
    <3>3. LastForkFailed' = LastForkFailed
      BY <1>1 DEF LastForkFailed
    <3> QED  BY <1>1, <3>1, <3>2, <3>3 DEF Waiting
  <2> QED  BY <2>1, <2>2
<1>10. Based'
  BY <1>1, <1>2 DEF IInv, Based
<1> QED  BY <1>4, <1>6, <1>7, <1>9, <1>10 DEF IInv

\* A wait that is over, by a worker, by the lack of any or by a signal.
LEMMA MatchedInv ==
  ASSUME IInv, pc[Parent] = "wait",
         NEW id \in Workers \cup {-1}, NEW s \in {0, 1}, Matched(id, s),
         id \in Workers => pc[id] = "ended" /\ s = status[id],
         UNCHANGED <<site, ip, todo, done, ipr, status, absent, stolen>>
  PROVE  IInv'
<1>1. PICK k \in Workers :
        /\ npr[k] = id /\ npr'[k] = 0 /\ \A w \in Workers : w # k => npr'[w] = npr[w]
        /\ npr' \in [Workers -> {-1, 0} \cup Workers]
        /\ waits' = waits - 1 /\ pc' = After(id, k, s)
  <2>1. npr \in [Workers -> {-1, 0} \cup Workers]
    BY DEF IInv, Typed
  <2> QED  BY <2>1 DEF Matched
<1> DEFINE end == IF site = "Spectrum" /\ (id # k \/ s # 0) THEN "stopped"
                  ELSE IF waits = 1 THEN "use" ELSE "wait"
<1>2. /\ WorkerInv(k) /\ k \in Nat \ {0} /\ k \in Procs /\ ip \in Nat /\ NParallel \in Nat \ {0}
      /\ waits \in Nat /\ waits > 0 /\ waits <= NParallel - 1 /\ id # Parent /\ id \notin Strangers
      /\ Parent \in Procs
  BY ProcFacts, IpFacts, SizeAssumption, StrangersAssumption DEF IInv, Typed, Waiting
<1>3. /\ DOMAIN pc = Procs \cup Strangers /\ pc'[Parent] = end
      /\ end \in {"wait", "use", "stopped"}
      /\ \A w \in Workers : pc'[w] = IF w = id THEN "none" ELSE pc[w]
      /\ \A p \in Procs : pc'[p] = "work" => pc[p] = "work"
  <2>1. DOMAIN pc = Procs \cup Strangers
    BY DEF IInv, Typed
  <2>2. pc'[Parent] = end
    BY <1>1, <1>2, <2>1 DEF After
  <2>3. end \in {"wait", "use", "stopped"}
    OBVIOUS
  <2>4. \A w \in Workers : pc'[w] = IF w = id THEN "none" ELSE pc[w]
    BY <1>1, <2>1, ProcFacts DEF After
  <2> HIDE DEF end
  <2>5. \A p \in Procs : pc'[p] = "work" => pc[p] = "work"
    BY <2>2, <2>3, <2>4, ProcFacts
  <2> QED  BY <2>1, <2>2, <2>3, <2>4, <2>5
<1>4. irtc' = IF s = 0 \/ site = "Spectrum" THEN irtc
              ELSE IF site = "OffMom" THEN 1 ELSE 20003
  BY DEF Matched
<1>5. id \in Workers => id = k /\ k <= ip
  BY <1>1, <1>2, ProcFacts DEF WorkerInv, Unforked, Entered
<1>6. id = -1 => k > ip \/ (Idle(k) /\ k \in absent)
  BY <1>1, <1>2 DEF WorkerInv, Unforked, Entered
<1>7. k > ip => site = "Spectrum" /\ end = "stopped"
  BY <1>1, <1>2, <1>5, ProcFacts DEF WorkerInv, Unforked
<1>8. Typed'
  <2>1. /\ pc' \in [Procs \cup Strangers ->
               {"none", "run", "fork", "work", "ended", "wait", "use", "stopped"}]
        /\ \A w \in Workers : pc'[w] \in {"none", "work", "ended"}
        /\ pc'[Parent] \in {"wait", "use", "stopped"}
    BY <1>1, <1>3, ProcFacts DEF IInv, Typed, After
  <2>2. waits' \in 0..(NParallel - 1) /\ irtc' \in {0, 1, 20003}
    BY <1>1, <1>2, <1>4 DEF IInv, Typed
  <2> QED  BY <1>1, <2>1, <2>2 DEF IInv, Typed
<1> HIDE DEF end
<1>9. ASSUME NEW w \in Workers PROVE WorkerInv(w)'
  <2>1. WorkerInv(w) /\ w \in Nat \ {0}
    BY ProcFacts DEF IInv
  <2>2. pc'[Parent] \in {"wait", "use", "stopped"}
    BY <1>3
  <2>3. CASE w = k
    <3>1. pc'[w] = "none"
      BY <1>2, <1>3, <1>5, <1>6, <2>3 DEF WorkerInv, Unforked, Idle
    <3>2. Unforked(w)'
      BY <1>1, <1>2, <1>3, <1>5, <1>7, <2>3, <3>1 DEF WorkerInv, Unforked, Idle
    <3>3. Entered(w)'
      BY <1>1, <2>2, <2>3, <3>1 DEF Entered
    <3>4. Does(w)'
      <4>1. CASE id \in Workers
        <5>1. pc[w] # "work"
          BY <1>5, <2>3, <4>1
        <5> QED  BY <2>1, <5>1, <3>1 DEF WorkerInv, Does
      <4>2. CASE id = -1
        BY <1>2, <1>6, <2>3, <4>2 DEF Does
      <4> QED  BY <4>1, <4>2
    <3>5. Noticed(w)'
      <4> SUFFICES ASSUME w <= ip, end \in {"wait", "use"}, status[w] = 1
                   PROVE  site # "Spectrum" /\ irtc' # 0
        BY <1>3 DEF Noticed
      <4>1. id = k /\ s = 1
        BY <1>2, <1>5, <1>6, <2>3 DEF Idle
      <4> QED  BY <1>4, <4>1 DEF end
    <3> QED  BY <2>1, <3>2, <3>3, <3>4, <3>5 DEF WorkerInv
  <2>4. CASE w # k
    <3>1. pc'[w] = pc[w] /\ npr'[w] = npr[w]
      BY <1>1, <1>3, <1>5, <2>4
    <3>2. irtc # 0 => irtc' # 0
      BY <1>4
    <3> QED  BY <2>1, <2>2, <3>1, <3>2 DEF WorkerInv, Unforked, Entered, Does, Noticed, Idle
  <2> QED  BY <2>3, <2>4
<1>10. Limit(site, ip)' /\ LastFork'
  BY DEF IInv, LastFork
<1>11. ParentInv'
  <2>1. pc'[Parent] \in {"wait", "use", "stopped"}
    BY <1>3
  <2> QED  BY <2>1 DEF IInv, ParentInv
<1>12. Waiting'
  <2> SUFFICES ASSUME end # "stopped" PROVE Waiting'
    BY <1>3 DEF Waiting
  <2>1. k \in 1..ip
    BY <1>2, <1>7
  <2>2. npr[k] # 0
    BY <1>1, ProcFacts
  <2>3. Ended(ip, npr') = Ended(ip, npr) \cup {k} /\ k \notin Ended(ip, npr)
    <3>1. \A w \in 1..ip : w \in Workers
      BY <1>2 DEF IInv, Limit, Workers
    <3> QED  BY <1>1, <2>1, <2>2, <3>1 DEF Ended
  <2>4. /\ Cardinality(Ended(ip, npr')) = Cardinality(Ended(ip, npr)) + 1
        /\ Cardinality(Ended(ip, npr)) \in Nat
    <3>1. IsFiniteSet(Ended(ip, npr)) /\ Cardinality(Ended(ip, npr)) \in Nat
      BY <1>2, EndedFacts
    <3> QED  BY <2>3, <3>1, FS_AddElement
  <2>5. ToEnd(site, ip) \in Nat /\ ip <= ToEnd(site, ip)
    BY <1>2, SizeAssumption DEF ToEnd, IInv, Limit
  <2>6. /\ waits = ToEnd(site, ip) - Cardinality(Ended(ip, npr))
        /\ site = "Spectrum" => NVar >= NParallel
    BY DEF IInv, Waiting
  <2>7. CASE waits = 1
    <3>1. Cardinality(Ended(ip, npr')) = ToEnd(site, ip)
      BY <2>4, <2>5, <2>6, <2>7
    <3>2. ip = ToEnd(site, ip) /\ \A w \in 1..ip : npr'[w] = 0
      <4>1. /\ Cardinality(Ended(ip, npr')) \in 0..ip
            /\ Cardinality(Ended(ip, npr')) = ip => \A w \in 1..ip : npr'[w] = 0
        BY <1>2, EndedFacts
      <4> QED  BY <1>2, <2>5, <3>1, <4>1
    <3>3. end = "use"
      BY <2>7 DEF end
    <3> QED  BY <1>3, <3>2, <3>3 DEF Waiting, ToEnd
  <2>8. CASE waits # 1
    <3>1. end = "wait" /\ waits' > 0 
      BY <1>1, <1>2, <2>8 DEF end
    <3>2. waits' = ToEnd(site, ip) - Cardinality(Ended(ip, npr'))
      BY <1>1, <1>2, <2>4, <2>5, <2>6
    <3> QED  BY <1>3, <2>6, <3>1, <3>2 DEF Waiting
  <2> QED  BY <2>7, <2>8
<1>13. Based'
  BY <1>3 DEF IInv, Based
<1> QED  BY <1>8, <1>9, <1>10, <1>11, <1>12, <1>13 DEF IInv

LEMMA WaitInv ==
  ASSUME IInv, (\E w \in Workers : Wait(w)) \/ WaitNoChild \/ WaitInterrupted
  PROVE  IInv'
<1>1. ASSUME NEW w \in Workers, Wait(w) PROVE IInv'
  <2>1. /\ pc[Parent] = "wait" /\ pc[w] = "ended" /\ Matched(w, status[w])
        /\ UNCHANGED <<site, ip, todo, done, ipr, status, absent, stolen>>
        /\ status[w] \in {0, 1} /\ w \in Workers \cup {-1}
    BY <1>1 DEF Wait, IInv, Typed
  <2> QED  BY <2>1, MatchedInv
<1>2. CASE WaitNoChild \/ WaitInterrupted
  <2>1. PICK s \in {0, 1} : Matched(-1, s)
    BY <1>2 DEF WaitNoChild, WaitInterrupted
  <2>2. /\ pc[Parent] = "wait" /\ -1 \in Workers \cup {-1} /\ -1 \notin Workers
        /\ UNCHANGED <<site, ip, todo, done, ipr, status, absent, stolen>>
    BY <1>2, ProcFacts DEF WaitNoChild, WaitInterrupted
  <2> QED  BY <2>1, <2>2, MatchedInv
<1> QED  BY <1>1, <1>2

LEMMA InitInv == Init => IInv
<1> SUFFICES ASSUME Init PROVE IInv
  OBVIOUS
<1>1. PICK S \in SUBSET Strangers :
        pc = [p \in Procs \cup Strangers |->
                IF p = Parent THEN "fork" ELSE IF p \in S THEN "run" ELSE "none"]
  BY DEF Init
<1>2. PICK g \in {0, -1} : npr = [w \in Workers |-> g] /\ (site # "Spectrum" => g = 0)
  BY DEF Init
<1>3. /\ site \in Sites /\ ip = 0 /\ todo = [p \in Procs |-> {}] /\ done = [p \in Procs |-> {}]
      /\ ipr \in {-1, 1} /\ (site # "Spectrum" => ipr = -1)
      /\ status = [p \in Workers \cup Strangers |-> 0]
      /\ waits = 0 /\ irtc = 0
  BY DEF Init
<1>4. pc[Parent] = "fork" /\ \A w \in Workers : pc[w] = "none"
  BY <1>1, ProcFacts
<1>5. Typed
  <2>1. pc \in [Procs \cup Strangers ->
               {"none", "run", "fork", "work", "ended", "wait", "use", "stopped"}]
    BY <1>1
  <2>2. npr \in [Workers -> {-1, 0} \cup Workers] /\ waits \in 0..(NParallel - 1)
    BY <1>2, <1>3, SizeAssumption
  <2> QED  BY <1>3, <1>4, <2>1, <2>2 DEF Typed
<1>6. Limit(site, ip) /\ LastFork
  BY <1>3, SizeAssumption, NpaFacts DEF Limit, LastFork
<1>7. ASSUME NEW w \in Workers PROVE WorkerInv(w)
  <2>1. Idle(w) /\ w > ip /\ ~ (w <= ip)
    BY <1>3, <1>4, ProcFacts DEF Idle
  <2> QED  BY <1>2, <2>1 DEF WorkerInv, Unforked, Entered, Does, Noticed, Idle
<1>8. ParentInv /\ Waiting
  BY <1>3, <1>4, ProcFacts DEF ParentInv, Waiting
<1>9. Based
  BY <1>3 DEF Based, Closed
<1> QED  BY <1>5, <1>6, <1>7, <1>8, <1>9 DEF IInv

LEMMA StepInv == IInv /\ [Next]_vars => IInv'
<1> SUFFICES ASSUME IInv, [Next]_vars PROVE IInv'
  OBVIOUS
<1>1. CASE ParentStep \/ WaitInterrupted
  BY <1>1, ForkInv, ForkFailsInv, ForkedInv, DoInv, ParentDoneInv, WaitInv, ChildrenInv,
     ProcFacts DEF ParentStep
<1>2. ASSUME NEW w \in Workers, WorkerStep(w) \/ WorkerStops(w) \/ SeedFails(w) \/ Steal(w)
      PROVE  IInv'
  BY <1>2, DoInv, WorkerEndsInv, ChildrenInv, ProcFacts DEF WorkerStep
<1>3. ASSUME NEW c \in Strangers, StrangerEnds(c) PROVE IInv'
  BY <1>3, ChildrenInv
<1>4. CASE UNCHANGED vars
  <2>1. UNCHANGED <<site, pc, ip, todo, done, npr, ipr, status, waits, irtc, absent>>
    BY <1>4 DEF vars
  <2>2. \A w \in Workers : WorkerInv(w)'
    BY <2>1 DEF IInv, WorkerInv, Unforked, Entered, Does, Noticed, Idle
  <2>3. ParentInv' /\ Waiting' /\ Based' /\ LastFork'
    BY <2>1 DEF IInv, ParentInv, Waiting, LastForkFailed, Based, LastFork
  <2> QED  BY <2>1, <2>2, <2>3 DEF IInv, Typed
<1> QED  BY <1>1, <1>2, <1>3, <1>4 DEF Next

-----------------------------------------------------------------------------
(* What the invariant says of the properties.                              *)

LEMMA InvTypeOK == IInv => TypeOK
BY SizeAssumption DEF IInv, Typed, Limit, TypeOK

LEMMA InvOneWriter == IInv => OneWriter
<1> SUFFICES ASSUME IInv PROVE OneWriter
  OBVIOUS
<1>1. ip \in Nat /\ ip \in 0..(NParallel - 1) /\ site \in Sites /\ Limit(site, ip)
  BY IpFacts DEF IInv, Typed, Limit
<1>2. \A w \in Workers : done[w] \subseteq Share(site, w) /\ (w > ip => done[w] = {})
  BY DEF IInv, WorkerInv, Unforked, Idle
<1>3. ASSUME NEW v \in Workers, NEW w \in Workers, v # w PROVE done[v] \cap done[w] = {}
  <2>1. v \in Nat \ {0} /\ w \in Nat \ {0}
    BY ProcFacts
  <2>2. CASE v > ip \/ w > ip
    BY <1>2, <2>2
  <2>3. CASE v <= ip /\ w <= ip
    <3>1. v \in 1..ip /\ w \in 1..(ip + 1)
      BY <1>1, <2>1, <2>3
    <3> QED  BY <1>1, <1>2, <3>1, <1>3, SharesDisjoint
  <2> QED  BY <1>1, <2>1, <2>2, <2>3
<1>4. ASSUME NEW w \in Workers PROVE done[w] \cap done[Parent] = {}
  <2>1. w \in Nat \ {0} /\ Parent = 0
    BY ProcFacts
  <2>2. CASE w > ip \/ done[Parent] = {} \/ done[w] = {}
    BY <1>2, <2>2
  <2>3. CASE w <= ip /\ done[Parent] # {} /\ done[w] # {}
    <3>1. done[Parent] \subseteq ParentShare(site, ip, ipr)
      BY <2>3 DEF IInv, ParentInv
    <3>2. w \in 1..ip /\ w \in 1..(ip + 1) /\ ip > 0 /\ w # ip + 1 /\ ip + 1 \in 1..(ip + 1)
      BY <1>1, <2>1, <2>3
    <3>3. CASE site # "Spectrum" /\ ipr = -1
      <4>1. done[ip] = {} /\ w # ip
        BY <1>1, <2>3, <3>2, <3>3 DEF IInv, LastFork
      <4>2. CASE site = "OffMom"
        BY <1>1, <3>2, <4>1, <4>2 DEF Limit
      <4>3. CASE site # "OffMom"
        <5>1. done[Parent] \subseteq Share(site, ip) \/ done[Parent] \subseteq Share(site, ip + 1)
          BY <3>1, <4>3 DEF ParentShare
        <5>2. ip \in 1..(ip + 1)
          BY <1>1, <3>2
        <5> QED  BY <1>1, <1>2, <3>2, <4>1, <5>1, <5>2, SharesDisjoint
      <4> QED  BY <4>2, <4>3
    <3>4. CASE ~ (site # "Spectrum" /\ ipr = -1)
      <4>1. ParentShare(site, ip, ipr) = Share(site, ip + 1)
        BY <3>4 DEF ParentShare
      <4> QED  BY <1>1, <1>2, <3>1, <3>2, <4>1, SharesDisjoint
    <3> QED  BY <3>3, <3>4
  <2> QED  BY <1>1, <2>1, <2>2, <2>3
<1> QED  BY <1>3, <1>4, ProcFacts DEF OneWriter

LEMMA InvOwnBase == IInv => OwnBase
BY DEF IInv, Based, Closed, OwnBase

LEMMA InvNobodyLeft == IInv => NobodyLeft
<1> SUFFICES ASSUME IInv, Used, ~ LastForkFailed, NEW w \in Workers PROVE pc[w] = "none"
  BY DEF NobodyLeft
<1>1. w \in Nat \ {0} /\ WorkerInv(w) /\ pc[Parent] = "use" /\ ip \in Nat
  BY ProcFacts, IpFacts DEF Used, IInv
<1>2. CASE w > ip
  BY <1>1, <1>2 DEF WorkerInv, Unforked, Idle
<1>3. CASE w <= ip
  <2>1. npr[w] = 0
    BY <1>1, <1>3 DEF IInv, Waiting
  <2> QED  BY <1>1, <1>3, <2>1 DEF WorkerInv, Entered
<1> QED  BY <1>1, <1>2, <1>3

\* The share the parent has done: its own, or all, or the one it did instead.
LEMMA ParentShareCases ==
  ASSUME IInv, Used
  PROVE  \/ done[Parent] = Units(site)
         \/ /\ LastForkFailed /\ site \in {"NumDerv", "EVDeriv"}
            /\ done[Parent] = Share(site, ip)
         \/ /\ ~ (LastForkFailed /\ site \in {"NumDerv", "EVDeriv", "OffMom"})
            /\ site = "OffMom" => ip = 1
            /\ done[Parent] = Share(site, ip + 1)
<1>1. /\ done[Parent] = ParentShare(site, ip, ipr) /\ ~ More(site, ip, ipr)
      /\ ip \in Nat /\ site \in Sites
  <2>1. ip \in Nat
    BY IpFacts DEF IInv
  <2> QED  BY <2>1 DEF Used, IInv, ParentInv, Typed
<1>2. CASE site = "OffMom"
  BY <1>1, <1>2 DEF IInv, LastFork, Limit, LastForkFailed, ParentShare
<1>3. CASE site \in {"NumDerv", "EVDeriv"}
  <2>1. CASE ip = 0
    <3>1. ~ (0 < npa - 1) /\ npa \in Nat
      BY <1>1, <1>3, <2>1, NpaFacts DEF More, Matching
    <3> QED  BY <1>1, <1>3, <2>1, <3>1 DEF ParentShare, LastForkFailed
  <2>2. CASE ip > 0
    <3>1. npa > 1
      BY <1>1, <1>3, <2>2, NpaFacts DEF IInv, Limit, Matching
    <3> QED  BY <1>1, <1>3, <2>2, <3>1 DEF ParentShare, LastForkFailed, IInv, LastFork
  <2> QED  BY <1>1, <2>1, <2>2
<1>4. CASE site \notin {"NumDerv", "EVDeriv", "OffMom"}
  BY <1>1, <1>4 DEF ParentShare
<1> QED  BY <1>2, <1>3, <1>4

\* What a worker has not done when its share is not deserted.
LEMMA WorkerShareLeft ==
  ASSUME IInv, Used, irtc = 0, NEW k \in 1..ip, k \notin absent,
         site = "OffMom" => ~ LastForkFailed,
         NEW u \in Share(site, k), u \notin done[k]
  PROVE  LastForkFailed /\ k \in Workers /\ u \in todo[k]
<1>1. k \in Workers /\ WorkerInv(k) /\ k <= ip /\ pc[Parent] = "use"
  <2>1. ip \in 0..(NParallel - 1) /\ NParallel \in Nat
    BY SizeAssumption DEF IInv, Limit
  <2>2. k \in Workers /\ k <= ip
    BY <2>1 DEF Workers
  <2> QED  BY <2>2 DEF Used, IInv
<1>2. CASE LastForkFailed
  <2>1. site \notin {"Spectrum", "OffMom"}
    BY <1>2 DEF LastForkFailed
  <2> QED  BY <1>1, <1>2, <2>1 DEF WorkerInv, Does
<1>3. CASE ~ LastForkFailed
  <2>1. npr[k] = 0 /\ pc[k] = "none"
    BY <1>1, <1>3, InvNobodyLeft DEF IInv, Waiting, NobodyLeft
  <2>2. status[k] # 1
    BY <1>1, <2>1 DEF WorkerInv, Noticed
  <2> QED  BY <1>1, <2>1, <2>2 DEF WorkerInv, Does
<1> QED  BY <1>2, <1>3

LEMMA InvMissingIsDeserted == IInv => MissingIsDeserted
<1> SUFFICES ASSUME IInv, Used, irtc = 0,
                    NEW u \in Units(site), \A p \in Procs : u \notin done[p]
             PROVE  \/ \E k \in Deserted : u \in Share(site, k)
                    \/ LastForkFailed /\ \E w \in Workers : u \in todo[w]
  BY DEF MissingIsDeserted
<1>1. /\ pc[Parent] = "use" /\ ip \in Nat /\ site \in Sites /\ Limit(site, ip)
      /\ ~ More(site, ip, ipr) /\ u \notin done[Parent] /\ Workers \subseteq Procs
  BY IpFacts, ProcFacts DEF Used, IInv, Typed, ParentInv
<1>2. site = "Spectrum" /\ NVar >= NParallel => ip = NParallel - 1
  BY <1>1 DEF IInv, Waiting, LastForkFailed
<1>3. site = "OffMom" => ip = 1 /\ ~ LastForkFailed
  BY <1>1, ParentShareCases
<1>4. PICK k \in 1..(ip + 1) : u \in Share(site, k)
  BY <1>1, <1>2, <1>3, SharesCover
<1>5. CASE k = ip + 1
  <2>1. LastForkFailed /\ site \in {"NumDerv", "EVDeriv"}
    BY <1>1, <1>4, <1>5, ParentShareCases
  <2>2. k \in Deserted
    BY <1>5, <2>1 DEF Deserted
  <2> QED  BY <1>4, <2>2
<1>6. CASE k # ip + 1 /\ k \in absent
  <2>1. LastForkFailed /\ site \in {"NumDerv", "EVDeriv"} => k # ip
    BY <1>1, <1>3, <1>4, ParentShareCases
  <2>2. k \in Deserted
    BY <1>3, <1>6, <2>1 DEF Deserted
  <2> QED  BY <1>4, <2>2
<1>7. CASE k # ip + 1 /\ k \notin absent
  <2>1. k \in 1..ip
    BY <1>1, <1>7
  <2>2. k \in Workers
    BY <1>1, <2>1, SizeAssumption DEF Limit, Workers
  <2> QED  BY <1>1, <1>3, <1>4, <1>7, <2>1, <2>2, WorkerShareLeft
<1> QED  BY <1>5, <1>6, <1>7

LEMMA AlwaysInv == Spec => []IInv
<1> QED  BY InitInv, StepInv, PTL DEF Spec

\* The places that divide work never fork more workers, count more waits or
\* use another error code than the code has room for.
THEOREM WorkerPoolTypeOK == Spec => []TypeOK
<1> QED  BY AlwaysInv, InvTypeOK, PTL

\* Whatever the number of processes and of columns, particles, wave numbers,
\* momenta and families, and whichever forks fail: no unit of work is done by
\* two processes.
THEOREM WorkerPoolOneWriter == Spec => []OneWriter
<1> QED  BY AlwaysInv, InvOneWriter, PTL

\* Each process of tffscalc computes what its momenta and families start from.
THEOREM WorkerPoolOwnBase == Spec => []OwnBase
<1> QED  BY AlwaysInv, InvOwnBase, PTL

\* When the parent uses the results: without an error it knows of, what is
\* missing are deserted shares.  If the last fork failed, and only then, it
\* has waited for nobody, workers may be left, and what these have still to
\* do, or have stopped before, is missing too.
THEOREM WorkerPoolMissingWhenUsed == Spec => []MissingWhenUsed
<1>1. IInv => MissingWhenUsed
  BY InvMissingIsDeserted, InvNobodyLeft DEF MissingWhenUsed
<1> QED  BY <1>1, AlwaysInv, PTL
=============================================================================
