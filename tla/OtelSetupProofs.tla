-------------------------- MODULE OtelSetupProofs --------------------------
(***************************************************************************)
(* For every environment, every list of exporters, every configuration     *)
(* file and every constructor that fails: the environment is left as it    *)
(* was found, what serves has the readers that were asked for, and         *)
(* Shutdown reaches whatever runs.                                         *)
(*                                                                         *)
(* ParsePushExporters is a loop over a list of any length.  What it        *)
(* returns is proved by taking the first prefix for which the claim fails, *)
(* which exists as the naturals are well founded; that its recursive       *)
(* definition has a value at all is proved in the same way.                *)
(***************************************************************************)
EXTENDS OtelSetup, FiniteSetTheorems, SequenceTheorems, WellFoundedInduction, TLAPS

Entries == Kinds \cup {Prometheus, ""}

\* No element twice.
Distinct(s) == \A i, j \in 1 .. Len(s) : s[i] = s[j] => i = j

-----------------------------------------------------------------------------
(* Sequences without an element twice.                                     *)

\* The elements of a sequence are those it is made of.
LEMMA ToSetOfSeq ==
  ASSUME NEW S, NEW s \in Seq(S)
  PROVE  ToSet(s) \subseteq S
<1>1. DOMAIN s = 1 .. Len(s)
  BY LenProperties
<1> QED
  BY <1>1, ElementOfSeq DEF ToSet

\* Append adds one element.
LEMMA ToSetAppend ==
  ASSUME NEW S, NEW s \in Seq(S), NEW e \in S
  PROVE  ToSet(Append(s, e)) = ToSet(s) \cup {e}
<1>1. DOMAIN s = 1 .. Len(s) /\ DOMAIN Append(s, e) = 1 .. Len(s) + 1
      /\ Len(s) \in Nat
  BY AppendProperties, LenProperties
<1>2. \A i \in 1 .. Len(s) : Append(s, e)[i] = s[i]
  BY AppendProperties
<1>3. Append(s, e)[Len(s) + 1] = e
  BY AppendProperties
<1> QED
  BY <1>1, <1>2, <1>3 DEF ToSet

\* It keeps the elements distinct when the new one is not among them.
LEMMA DistinctAppend ==
  ASSUME NEW S, NEW s \in Seq(S), NEW e \in S, Distinct(s), e \notin ToSet(s)
  PROVE  Distinct(Append(s, e))
<1>1. DOMAIN s = 1 .. Len(s) /\ Len(s) \in Nat /\ Len(Append(s, e)) = Len(s) + 1
  BY AppendProperties, LenProperties
<1>2. \A i \in 1 .. Len(s) : Append(s, e)[i] = s[i] /\ s[i] # e
  BY <1>1, AppendProperties DEF ToSet
<1>3. Append(s, e)[Len(s) + 1] = e
  BY AppendProperties
<1>4. \A i \in 1 .. Len(s) + 1 : i \in 1 .. Len(s) \/ i = Len(s) + 1
  BY <1>1
<1> QED
  BY <1>1, <1>2, <1>3, <1>4 DEF Distinct

\* The tail of such a sequence has every element but the head.
LEMMA DistinctTail ==
  ASSUME NEW S, NEW s \in Seq(S), s # <<>>, Distinct(s)
  PROVE  /\ Head(s) \in ToSet(s)
         /\ Distinct(Tail(s))
         /\ ToSet(Tail(s)) = ToSet(s) \ {Head(s)}
<1>1. /\ Len(s) \in Nat \ {0} /\ DOMAIN s = 1 .. Len(s)
      /\ Tail(s) \in Seq(S) /\ Len(Tail(s)) = Len(s) - 1
      /\ DOMAIN Tail(s) = 1 .. Len(s) - 1
      /\ Head(s) = s[1]
  BY EmptySeq, LenProperties, HeadTailProperties
<1>2. \A i \in 1 .. Len(s) - 1 : Tail(s)[i] = s[i + 1]
  BY <1>1, HeadTailProperties
<1>3. Head(s) \in ToSet(s)
  BY <1>1 DEF ToSet
<1>4. Distinct(Tail(s))
  BY <1>1, <1>2 DEF Distinct
<1>5. ASSUME NEW x PROVE x \in ToSet(Tail(s)) <=> x \in ToSet(s) /\ x # Head(s)
  <2>1. x \in ToSet(Tail(s)) => x \in ToSet(s) /\ x # Head(s)
    BY <1>1, <1>2 DEF ToSet, Distinct
  <2>2. ASSUME x \in ToSet(s), x # Head(s) PROVE x \in ToSet(Tail(s))
    <3>1. PICK i \in 1 .. Len(s) : x = s[i]
      BY <1>1, <2>2 DEF ToSet
    <3>2. i - 1 \in 1 .. Len(s) - 1 /\ Tail(s)[i - 1] = x
      BY <1>1, <1>2, <2>2, <3>1
    <3> QED
      BY <1>1, <3>2 DEF ToSet
  <2> QED
    BY <2>1, <2>2
<1> QED
  BY <1>3, <1>4, <1>5

\* Its length is the number of its elements.
LEMMA DistinctLength ==
  ASSUME NEW S, NEW s \in Seq(S), Distinct(s)
  PROVE  Len(s) = Cardinality(ToSet(s))
<1>1. DOMAIN s = 1 .. Len(s) /\ Len(s) \in Nat /\ s \in [1 .. Len(s) -> ToSet(s)]
  BY LenProperties DEF ToSet
<1>2. s \in Bijection(1 .. Len(s), ToSet(s))
  BY <1>1 DEF Distinct, ToSet, Bijection, Injection, Surjection, IsInjective
<1> QED
  BY <1>1, <1>2, FS_CountingElements DEF ExistsBijection

-----------------------------------------------------------------------------
(* What parsePushExporters returns.                                        *)

\* A set of naturals with something in it has a least element.
LEMMA LeastNat ==
  ASSUME NEW S \in SUBSET Nat, S # {}
  PROVE  \E x \in S : \A y \in S : x <= y
<1> DEFINE LT == {ss \in Nat \X Nat : ss[1] < ss[2]}
<1>1. IsWellFoundedOn(LT, Nat)
  BY NatLessThanWellFounded DEF OpToRel
<1>2. PICK x \in S : \A y \in S : <<y, x>> \notin LT
  BY <1>1, WFMin
<1>3. \A y \in S : x <= y
  <2> TAKE y \in S
  <2>1. <<y, x>> \in Nat \X Nat /\ <<y, x>>[1] = y /\ <<y, x>>[2] = x
    OBVIOUS
  <2> QED
    BY <1>2, <2>1
<1> QED
  BY <1>3

\* The recursive definition of Kept has a value: the contrary would fail first at
\* some n, and a function that is right up to n - 1 extends to n.
LEMMA KeptEquation ==
  ASSUME NEW s \in Seq(Entries)
  PROVE  Kept(s) = [n \in 0 .. Len(s) |->
                      IF n = 0 THEN <<>>
                      ELSE IF s[n] \in {"", Prometheus} \/ Contains(Kept(s)[n - 1], s[n])
                        THEN Kept(s)[n - 1]
                      ELSE Append(Kept(s)[n - 1], s[n])]
<1> DEFINE Step(x, e) == IF e \in {"", Prometheus} \/ Contains(x, e) THEN x
                                                                    ELSE Append(x, e)
           Solves(g, m) == g = [n \in 0 .. m |-> IF n = 0 THEN <<>>
                                                          ELSE Step(g[n - 1], s[n])]
           Bad == {m \in 0 .. Len(s) : ~\E g : Solves(g, m)}
<1>1. Len(s) \in Nat
  BY LenProperties
<1>2. \E g : Solves(g, 0)
  <2>1. Solves([n \in 0 .. 0 |-> <<>>], 0)
    OBVIOUS
  <2> QED
    BY <2>1
<1>3. ASSUME NEW m \in Nat, NEW g, Solves(g, m) PROVE \E h : Solves(h, m + 1)
  <2> DEFINE h == [n \in 0 .. m + 1 |-> IF n = m + 1 THEN Step(g[m], s[m + 1]) ELSE g[n]]
  <2> HIDE DEF Step
  <2>1. ASSUME NEW n \in 0 .. m + 1
        PROVE  h[n] = IF n = 0 THEN <<>> ELSE Step(h[n - 1], s[n])
    <3>1. CASE n = 0
      BY <1>3, <3>1
    <3>2. CASE n = m + 1
      <4>1. h[n - 1] = g[m]
        BY <3>2
      <4> QED
        BY <3>2, <4>1
    <3>3. CASE n \in 1 .. m
      <4>1. h[n - 1] = g[n - 1] /\ h[n] = g[n]
        BY <3>3
      <4>2. g[n] = Step(g[n - 1], s[n])
        BY <1>3, <3>3
      <4> QED
        BY <3>3, <4>1, <4>2
    <3> QED
      BY <3>1, <3>2, <3>3
  <2>2. Solves(h, m + 1)
    <3> HIDE DEF h
    <3>1. h = [n \in 0 .. m + 1 |-> h[n]]
      BY DEF h
    <3> QED
      BY <2>1, <3>1
  <2> QED
    BY <2>2
<1>4. Bad = {}
  <2> SUFFICES ASSUME Bad # {} PROVE FALSE
    OBVIOUS
  <2> HIDE DEF Solves
  <2>1. PICK m \in Bad : \A k \in Bad : m <= k
    <3>1. Bad \in SUBSET Nat
      BY <1>1
    <3> HIDE DEF Bad
    <3> QED  BY <3>1, LeastNat
  <2>2. m # 0
    BY <1>2
  <2>3. m - 1 \in 0 .. Len(s) /\ m - 1 \notin Bad /\ m - 1 \in Nat
    BY <1>1, <2>1, <2>2
  <2>4. \E h : Solves(h, (m - 1) + 1)
    BY <1>3, <2>3
  <2> QED
    BY <1>1, <2>1, <2>4
<1>5. \E g : Solves(g, Len(s))
  <2> HIDE DEF Solves
  <2> QED  BY <1>1, <1>4
<1>6. Kept(s) = CHOOSE g : Solves(g, Len(s))
  BY DEF Kept
<1>7. Solves(Kept(s), Len(s))
  <2> HIDE DEF Solves
  <2> QED  BY <1>5, <1>6
<1> QED
  BY <1>7

\* What is kept of the first n entries: each of their exporters, once.
LEMMA KeptCollects ==
  ASSUME NEW s \in Seq(Entries), NEW n \in 0 .. Len(s)
  PROVE  /\ Kept(s)[n] \in Seq(Kinds)
         /\ Distinct(Kept(s)[n])
         /\ ToSet(Kept(s)[n]) = {s[i] : i \in 1 .. n} \ {"", Prometheus}
<1> DEFINE out == Kept(s)
           Good(m) == /\ out[m] \in Seq(Kinds) /\ Distinct(out[m])
                      /\ ToSet(out[m]) = {s[i] : i \in 1 .. m} \ {"", Prometheus}
           Bad == {m \in 0 .. Len(s) : ~Good(m)}
<1>1. Len(s) \in Nat
  BY LenProperties
<1>2. Kept(s)[0] = <<>>
  <2>1. 0 \in 0 .. Len(s)
    BY <1>1
  <2>2. Kept(s)[0] = IF 0 = 0 THEN <<>>
                     ELSE IF s[0] \in {"", Prometheus} \/ Contains(Kept(s)[0 - 1], s[0])
                       THEN Kept(s)[0 - 1]
                     ELSE Append(Kept(s)[0 - 1], s[0])
    BY <2>1, KeptEquation, Zenon
  <2> QED
    BY <2>2
<1>3. ASSUME NEW m \in 1 .. Len(s)
      PROVE  Kept(s)[m] = IF s[m] \in {"", Prometheus} \/ Contains(Kept(s)[m - 1], s[m])
                            THEN Kept(s)[m - 1]
                          ELSE Append(Kept(s)[m - 1], s[m])
  <2>1. m \in 0 .. Len(s) /\ m # 0
    BY <1>1
  <2>2. Kept(s)[m] = IF m = 0 THEN <<>>
                     ELSE IF s[m] \in {"", Prometheus} \/ Contains(Kept(s)[m - 1], s[m])
                       THEN Kept(s)[m - 1]
                     ELSE Append(Kept(s)[m - 1], s[m])
    BY <2>1, KeptEquation, Zenon
  <2> QED
    BY <2>1, <2>2
<1> HIDE DEF out
<1>4. Good(0)
  <2>1. <<>> \in Seq(Kinds) /\ Distinct(<<>>) /\ ToSet(<<>>) = {}
    BY EmptySeq DEF Distinct, ToSet
  <2>2. {s[i] : i \in 1 .. 0} = {}
    OBVIOUS
  <2> QED
    BY <1>2, <2>1, <2>2 DEF out
<1>5. ASSUME NEW m \in 1 .. Len(s), Good(m - 1) PROVE Good(m)
  <2> DEFINE x == out[m - 1]
  <2>1. s[m] \in Entries
    BY <1>5, ElementOfSeq
  <2>2. {s[i] : i \in 1 .. m} = {s[i] : i \in 1 .. m - 1} \cup {s[m]}
    BY <1>1
  <2>3. /\ x \in Seq(Kinds) /\ Distinct(x)
        /\ ToSet(x) = {s[i] : i \in 1 .. m - 1} \ {"", Prometheus}
    BY <1>5
  <2>4. /\ s[m] \in {"", Prometheus} \/ Contains(x, s[m]) => out[m] = x
        /\ ~(s[m] \in {"", Prometheus} \/ Contains(x, s[m])) => out[m] = Append(x, s[m])
    BY <1>3 DEF out
  <2> HIDE DEF x
  <2>5. Contains(x, s[m]) <=> s[m] \in ToSet(x)
    BY <2>3, LenProperties DEF Contains, ToSet
  <2>6. CASE s[m] \in {"", Prometheus} \/ s[m] \in ToSet(x)
    <3>1. out[m] = x
      BY <2>4, <2>5, <2>6
    <3>2. ToSet(x) = {s[i] : i \in 1 .. m} \ {"", Prometheus}
      BY <2>2, <2>3, <2>6
    <3> QED
      BY <2>3, <3>1, <3>2
  <2>7. CASE s[m] \notin {"", Prometheus} /\ s[m] \notin ToSet(x)
    <3>1. out[m] = Append(x, s[m]) /\ s[m] \in Kinds
      BY <2>1, <2>4, <2>5, <2>7 DEF Entries
    <3>2. Append(x, s[m]) \in Seq(Kinds) /\ Distinct(Append(x, s[m]))
      BY <2>3, <2>7, <3>1, AppendProperties, DistinctAppend
    <3>3. ToSet(Append(x, s[m])) = ToSet(x) \cup {s[m]}
      <4>1. \A e \in Kinds : ToSet(Append(x, e)) = ToSet(x) \cup {e}
        BY <2>3, ToSetAppend
      <4> QED
        BY <3>1, <4>1
    <3>4. ToSet(Append(x, s[m])) = {s[i] : i \in 1 .. m} \ {"", Prometheus}
      BY <2>2, <2>3, <2>7, <3>3
    <3> QED
      BY <3>1, <3>2, <3>4
  <2> QED
    BY <2>6, <2>7
<1>6. Bad = {}
  <2> SUFFICES ASSUME Bad # {} PROVE FALSE
    OBVIOUS
  <2> HIDE DEF Good
  <2>1. PICK m \in Bad : \A k \in Bad : m <= k
    <3>1. Bad \in SUBSET Nat
      BY <1>1
    <3> HIDE DEF Bad
    <3> QED  BY <3>1, LeastNat
  <2>2. m \in 1 .. Len(s)
    BY <1>1, <1>4, <2>1
  <2>3. m - 1 \in 0 .. Len(s) /\ m - 1 \notin Bad
    BY <1>1, <2>1, <2>2
  <2>4. Good(m)
    BY <1>5, <2>2, <2>3
  <2> QED
    BY <2>1, <2>4
<1>7. Good(n)
  <2> HIDE DEF Good
  <2> QED  BY <1>6
<1> QED
  BY <1>7 DEF out

\* parsePushExporters returns every exporter the list names, once, but for
\* prometheus, and nothing for "none" alone (otel.go:308-334).
LEMMA ParsePushExportersSelects ==
  ASSUME NEW s \in Seq(Entries)
  PROVE  LET k == ParsePushExporters(s)
         IN  /\ k \in Seq(Kinds) /\ Distinct(k)
             /\ ToSet(k) = IF s = None THEN {} ELSE ToSet(s) \ {"", Prometheus}
<1>1. Len(s) \in Nat /\ DOMAIN s = 1 .. Len(s)
  BY LenProperties
<1>2. CASE s = None
  <2>1. <<>> \in Seq(Kinds) /\ Len(<<>>) = 0 /\ DOMAIN <<>> = {}
    BY EmptySeq
  <2> QED
    BY <1>2, <2>1 DEF ParsePushExporters, Distinct, ToSet
<1>3. CASE s # None
  <2>1. ToSet(s) = {s[i] : i \in 1 .. Len(s)}
    BY <1>1 DEF ToSet
  <2>2. Len(s) \in 0 .. Len(s)
    BY <1>1
  <2>3. ParsePushExporters(s) = Kept(s)[Len(s)]
    BY <1>3 DEF ParsePushExporters
  <2> QED
    BY <1>3, <2>1, <2>2, <2>3, KeptCollects
<1> QED
  BY <1>2, <1>3

-----------------------------------------------------------------------------
(* The inductive invariant.                                                *)

Environments ==
  [metrics : Seq(Entries) \cup {Unset}, traces : Seq(Kinds) \cup {Unset},
   logs : Seq(Kinds) \cup {Unset}, config : {"file", Unset}]

TypesInv ==
  /\ found \in Environments /\ env \in Environments
  /\ prom \in BOOLEAN /\ path \in Paths /\ handler \in BOOLEAN
  /\ file \in {"absent", "empty", "push", "pull"}
  /\ pc \in Places

\* Where Setup is tells which of the two configurations it follows.
FlagPlaces == {"prom", "kinds", "reader", "traces", "logs"}
FilePlaces == {"yaml prom", "yaml env", "yaml sdk"}

BranchInv ==
  /\ pc \in FlagPlaces => found.config = Unset
  /\ pc \in FilePlaces => found.config # Unset /\ file # "pull"

\* Only between SetEnvScoped and NewMetricReader does the variable of the metrics
\* exporters hold something else, and only NewSDK sees the file's name gone.
EnvInv ==
  /\ env.traces = found.traces /\ env.logs = found.logs
  /\ pc # "reader" => env.metrics = found.metrics
  /\ pc = "reader" => kinds # <<>> /\ env.metrics = <<Head(kinds)>>
  /\ env.config \in {found.config, Unset}
  /\ pc \in FlagPlaces \cup {"setup", "yaml prom", "yaml env"} =>
       env.config = found.config
  /\ pc = "yaml sdk" => env.config = Unset

Providers == {"metrics", "traces", "logs", "sdk"}

\* Shutdown would call each running provider once.  A provider about to be built
\* is not running yet.
ProvidersInv ==
  /\ shutdowns \in Seq(Providers) /\ Distinct(shutdowns)
  /\ ToSet(shutdowns) = running
  /\ pc \in FilePlaces \cup {"setup", "prom", "kinds", "reader"} => shutdowns = <<>>
  /\ pc = "traces" => "traces" \notin running /\ "logs" \notin running
  /\ pc = "logs" => "logs" \notin running
  /\ pc = "down" => shutdowns = <<>>

PromReaders == IF prom THEN {Prometheus} ELSE {}

\* The readers still to be built and those that are there are the ones asked for,
\* none of them twice.
ReadersInv ==
  /\ kinds \in Seq(Kinds) /\ Distinct(kinds)
  /\ readers \in Seq(Kinds \cup {Prometheus}) /\ Distinct(readers)
  /\ pc \in {"setup", "prom", "yaml prom"} => readers = <<>>
  /\ pc \in {"kinds", "reader"} =>
       /\ handler = prom
       /\ ToSet(readers) \cup ToSet(kinds) = Selected \cup PromReaders
       /\ ToSet(readers) \cap ToSet(kinds) = {}
  /\ pc \in {"yaml env", "yaml sdk"} =>
       /\ handler = prom
       /\ readers = (IF prom THEN <<Prometheus>> ELSE <<>>)
       /\ prom => file # "absent"
  /\ pc \in {"traces", "logs", "built", "serving"} =>
       /\ handler = prom
       /\ installed \in Seq(Kinds \cup {Prometheus, "push"})
       /\ Distinct(installed)
       /\ ToSet(installed) = Selected \cup PromReaders
  /\ pc = "serving" => routes = Routes

OtelInv == TypesInv /\ BranchInv /\ EnvInv /\ ProvidersInv /\ ReadersInv

-----------------------------------------------------------------------------
(* Every step keeps it.                                                    *)

\* The short sequences the actions make.
LEMMA EmptyDistinct ==
  ASSUME NEW S
  PROVE  <<>> \in Seq(S) /\ Distinct(<<>>) /\ ToSet(<<>>) = {}
BY EmptySeq DEF Distinct, ToSet

\* Sequences of one element.
LEMMA SingleDistinct ==
  ASSUME NEW S, NEW e \in S
  PROVE  <<e>> \in Seq(S) /\ Distinct(<<e>>) /\ ToSet(<<e>>) = {e}
BY DEF Distinct, ToSet

\* Appending to the empty sequence, and joining two sequences of one element.
LEMMA ShortSequences ==
  ASSUME NEW e, NEW f
  PROVE  /\ Append(<<>>, e) = <<e>>
         /\ <<e>> \o <<f>> = <<e, f>>
<1> DEFINE S == {e, f}
<1>1. <<>> \in Seq(S) /\ <<e>> \in Seq(S) /\ <<f>> \in Seq(S) /\ <<e, f>> \in Seq(S)
  BY EmptySeq
<1>2. Append(<<>>, e) = <<e>>
  <2>1. Append(<<>>, e) \in Seq(S) /\ Len(Append(<<>>, e)) = 1 /\ Append(<<>>, e)[1] = e
    BY <1>1, EmptySeq, AppendProperties
  <2>2. Len(<<e>>) = 1 /\ <<e>>[1] = e
    OBVIOUS
  <2> QED
    BY <1>1, <2>1, <2>2, SeqEqual
<1>3. <<e>> \o <<f>> = <<e, f>>
  <2>1. Append(<<e>>, f) = <<e>> \o <<f>>
    BY <1>1, AppendIsConcat
  <2>2. Append(<<e>>, f) = <<e, f>>
    <3>1. /\ Append(<<e>>, f) \in Seq(S) /\ Len(Append(<<e>>, f)) = 2
          /\ Append(<<e>>, f)[1] = e /\ Append(<<e>>, f)[2] = f
      <4>1. Len(<<e>>) = 1 /\ <<e>>[1] = e /\ f \in S
        OBVIOUS
      <4> HIDE DEF S
      <4>2. /\ Append(<<e>>, f) \in Seq(S) /\ Len(Append(<<e>>, f)) = Len(<<e>>) + 1
            /\ \A i \in 1 .. Len(<<e>>) : Append(<<e>>, f)[i] = <<e>>[i]
            /\ Append(<<e>>, f)[Len(<<e>>) + 1] = f
        BY <1>1, <4>1, AppendProperties
      <4> QED
        BY <4>1, <4>2
    <3> DEFINE s == Append(<<e>>, f)
               t == <<e, f>>
    <3>2. t \in Seq(S) /\ Len(t) = 2 /\ t[1] = e /\ t[2] = f
      BY <1>1
    <3>3. s \in Seq(S) /\ Len(s) = 2 /\ s[1] = e /\ s[2] = f
      BY <3>1
    <3> HIDE DEF s, t, S
    <3>4. \A i \in 1 .. Len(s) : s[i] = t[i]
      BY <3>2, <3>3
    <3>5. s = t
      BY <3>2, <3>3, <3>4, SeqEqual
    <3> QED
      BY <3>5 DEF s, t
  <2> QED
    BY <2>1, <2>2
<1> QED
  BY <1>2, <1>3

\* Before Setup.
LEMMA InitInv == Init => OtelInv
<1> SUFFICES ASSUME Init PROVE OtelInv
  OBVIOUS
<1>1. found \in Environments
  <2>1. Lists \subseteq Seq(Entries) /\ Single \subseteq Seq(Kinds)
    <3>1. ASSUME NEW s \in Lists PROVE s \in Seq(Entries)
      <4>1. PICK m \in 0 .. MaxList : s \in [1 .. m -> Kinds \cup {Prometheus, ""}]
        BY DEF Lists, BoundedSeq, SeqOf
      <4>2. m \in Nat
        BY MaxListAssumption
      <4>3. s \in [1 .. m -> Entries]
        BY <4>1, Zenon DEF Entries
      <4>4. Seq(Entries) = UNION {[1 .. k -> Entries] : k \in Nat}
        BY SeqDef
      <4> QED
        BY <4>2, <4>3, <4>4
    <3> QED
      BY <3>1, SingleDistinct DEF Single
  <2> QED
    BY <2>1 DEF Init, Environments
<1>2. TypesInv
  BY <1>1 DEF Init, TypesInv, Places
<1>3. BranchInv /\ EnvInv
  BY <1>1 DEF Init, BranchInv, EnvInv, FlagPlaces, FilePlaces, Environments
<1>4. ProvidersInv /\ ReadersInv
  BY EmptyDistinct DEF Init, ProvidersInv, ReadersInv, FilePlaces
<1> QED
  BY <1>2, <1>3, <1>4 DEF OtelInv

\* What every action of Setup leaves alone.
LEMMA InputsStay ==
  ASSUME Next
  PROVE  /\ found' = found /\ prom' = prom /\ path' = path
         /\ pc # "yaml prom" => file' = file
BY DEF Next, Setup, Fail, BuildResource, BuildPromReader, SetEnvScoped,
   NewMetricReader, InstallMeterProvider, BuildProvider, BuildTracerProvider,
   BuildLoggerProvider, ReadConfigFile, AddYAMLPromReader, ClearConfigFile,
   NewSDK, BuildHandler, ShutdownNext, inputs

\* The types, the branch and the environment.
LEMMA EnvStep == OtelInv /\ Next => TypesInv' /\ BranchInv' /\ EnvInv'
<1> SUFFICES ASSUME OtelInv, Next
             PROVE  TypesInv' /\ BranchInv' /\ EnvInv'
  OBVIOUS
<1>0. TypesInv /\ BranchInv /\ EnvInv /\ kinds \in Seq(Kinds)
  BY DEF OtelInv, ReadersInv
<1>1. found' = found /\ prom' = prom /\ path' = path
  BY InputsStay
<1> USE DEF TypesInv, BranchInv, EnvInv, FlagPlaces, FilePlaces, Places
<1>2. CASE BuildResource
  BY <1>0, <1>2 DEF BuildResource, Fail, inputs, built
<1>3. CASE BuildPromReader
  BY <1>0, <1>3 DEF BuildPromReader, AddPromReader, Fail, inputs, built
<1>4. CASE SetEnvScoped
  <2>1. Head(kinds) \in Kinds /\ <<Head(kinds)>> \in Seq(Entries)
    <3>1. Head(kinds) \in Kinds
      BY <1>0, <1>4, HeadTailProperties DEF SetEnvScoped
    <3> QED
      BY <3>1, SingleDistinct DEF Entries
  <2> QED
    BY <1>0, <1>4, <2>1 DEF SetEnvScoped, Environments, inputs, built
<1>5. CASE NewMetricReader
  BY <1>0, <1>5 DEF NewMetricReader, Restore, Environments, Fail, inputs, built
<1>6. CASE InstallMeterProvider
  BY <1>0, <1>6 DEF InstallMeterProvider, inputs
<1>7. CASE BuildTracerProvider
  BY <1>0, <1>7 DEF BuildTracerProvider, BuildProvider, Fail, inputs, built
<1>8. CASE BuildLoggerProvider
  BY <1>0, <1>8 DEF BuildLoggerProvider, BuildProvider, Fail, inputs, built
<1>9. CASE ReadConfigFile
  <2>1. /\ UNCHANGED <<env, inputs, kinds, built>> /\ pc = "setup" /\ env.config # Unset
        /\ pc' = "failed" \/ (pc' = "yaml prom" /\ file # "pull")
    BY <1>9 DEF ReadConfigFile, Fail
  <2> QED
    BY <1>0, <2>1 DEF inputs, built
<1>10. CASE AddYAMLPromReader
  BY <1>0, <1>10 DEF AddYAMLPromReader, AddPromReader, Fail, inputs, built
<1>11. CASE ClearConfigFile
  BY <1>0, <1>11 DEF ClearConfigFile, Environments, Fail, inputs, built
<1>12. CASE NewSDK
  BY <1>0, <1>12 DEF NewSDK, Fail, inputs, built
<1>13. CASE ShutdownNext
  BY <1>0, <1>13 DEF ShutdownNext, inputs
<1>14. CASE BuildHandler
  BY <1>0, <1>14 DEF BuildHandler, Fail, inputs, built
<1> QED
  BY <1>2, <1>3, <1>4, <1>5, <1>6, <1>7, <1>8, <1>9, <1>10, <1>11, <1>12,
     <1>13, <1>14 DEF Next, Setup

\* A provider that was not running is appended to what Shutdown calls.
LEMMA ListProvider ==
  ASSUME ProvidersInv, NEW p \in Providers, p \notin running,
         running' = running \cup {p}, shutdowns' = Append(shutdowns, p)
  PROVE  /\ shutdowns' \in Seq(Providers) /\ Distinct(shutdowns)'
         /\ ToSet(shutdowns)' = running'
<1>1. shutdowns \in Seq(Providers) /\ Distinct(shutdowns) /\ ToSet(shutdowns) = running
  BY DEF ProvidersInv
<1>2. /\ Append(shutdowns, p) \in Seq(Providers)
      /\ Distinct(Append(shutdowns, p))
      /\ ToSet(Append(shutdowns, p)) = ToSet(shutdowns) \cup {p}
  BY <1>1, AppendProperties, DistinctAppend, ToSetAppend
<1> QED
  BY <1>1, <1>2

\* What is running and what Shutdown calls.
LEMMA ProvidersStep == OtelInv /\ Next => ProvidersInv'
<1> SUFFICES ASSUME OtelInv, Next
             PROVE  ProvidersInv'
  OBVIOUS
<1>0. ProvidersInv
  BY DEF OtelInv
<1>1. CASE BuildTracerProvider \/ BuildLoggerProvider \/ InstallMeterProvider
  <2>1. CASE InstallMeterProvider
    <3>1. running = {} /\ pc' = "traces"
      BY <1>0, <2>1, EmptyDistinct DEF InstallMeterProvider, ProvidersInv
    <3>2. /\ shutdowns' \in Seq(Providers) /\ Distinct(shutdowns)'
          /\ ToSet(shutdowns)' = running'
      BY <1>0, <2>1, <3>1, ListProvider DEF InstallMeterProvider, Providers
    <3> QED
      BY <2>1, <3>1, <3>2 DEF InstallMeterProvider, ProvidersInv, FilePlaces
  <2>2. ASSUME NEW signal \in {"traces", "logs"}, NEW after \in {"logs", "built"},
               signal = "traces" <=> after = "logs",
               BuildProvider(signal, after)
        PROVE  ProvidersInv'
    <3>1. CASE UNCHANGED <<running, shutdowns>>
      BY <1>0, <2>2, <3>1 DEF BuildProvider, Fail, ProvidersInv, FilePlaces
    <3>2. CASE /\ pc' = after /\ running' = running \cup {signal}
               /\ shutdowns' = Append(shutdowns, signal)
      <4>1. signal \in Providers /\ signal \notin running
        BY <1>0, <2>2 DEF BuildProvider, ProvidersInv, Providers
      <4>2. /\ shutdowns' \in Seq(Providers) /\ Distinct(shutdowns)'
            /\ ToSet(shutdowns)' = running'
        BY <1>0, <3>2, <4>1, ListProvider
      <4> QED
        BY <1>0, <2>2, <3>2, <4>2 DEF BuildProvider, ProvidersInv, FilePlaces
    <3> QED
      BY <2>2, <3>1, <3>2 DEF BuildProvider, Fail, built
  <2> QED
    BY <1>1, <2>1, <2>2 DEF BuildTracerProvider, BuildLoggerProvider
<1>2. CASE NewSDK
  <2>1. CASE Fail
    BY <1>0, <2>1 DEF Fail, built, ProvidersInv, FilePlaces
  <2>2. CASE pc' = "built" /\ running' = {"sdk"} /\ shutdowns' = <<"sdk">>
    BY <2>2, SingleDistinct DEF ProvidersInv, Providers, FilePlaces
  <2> QED
    BY <1>2, <2>1, <2>2 DEF NewSDK
<1>3. CASE ShutdownNext
  <2>1. /\ shutdowns \in Seq(Providers) /\ shutdowns # <<>> /\ Distinct(shutdowns)
        /\ ToSet(shutdowns) = running
    BY <1>0, <1>3 DEF ShutdownNext, ProvidersInv
  <2>2. /\ Tail(shutdowns) \in Seq(Providers) /\ Distinct(Tail(shutdowns))
        /\ ToSet(Tail(shutdowns)) = running \ {Head(shutdowns)}
    BY <2>1, DistinctTail, HeadTailProperties
  <2> QED
    BY <1>3, <2>2 DEF ShutdownNext, ProvidersInv, FilePlaces
<1>4. CASE \/ BuildResource \/ BuildPromReader \/ SetEnvScoped \/ NewMetricReader
           \/ ReadConfigFile \/ AddYAMLPromReader \/ ClearConfigFile
           \/ BuildHandler
  <2>1. UNCHANGED <<running, shutdowns>>
    BY <1>4 DEF BuildResource, BuildPromReader, SetEnvScoped, NewMetricReader,
       ReadConfigFile, AddYAMLPromReader, ClearConfigFile, BuildHandler, Fail,
       built
  <2>2. /\ pc' \notin {"traces", "logs", "down"}
        /\ \/ pc' \notin FilePlaces \cup {"setup", "prom", "kinds", "reader"}
           \/ pc \in FilePlaces \cup {"setup", "prom", "kinds", "reader"}
    BY <1>4 DEF BuildResource, BuildPromReader, SetEnvScoped, NewMetricReader,
       ReadConfigFile, AddYAMLPromReader, ClearConfigFile, BuildHandler, Fail,
       FilePlaces
  <2> QED
    BY <1>0, <2>1, <2>2 DEF ProvidersInv
<1> QED
  BY <1>1, <1>2, <1>3, <1>4 DEF Next, Setup

\* What the flags and the file ask for does not change but by AddYAMLPromReader.
LEMMA SelectedStays ==
  ASSUME found' = found, prom' = prom, file' = file
  PROVE  Selected' = Selected /\ PromReaders' = PromReaders
BY DEF Selected, Declared, PromReaders

\* The first step that builds readers: the Prometheus one, and the list.
LEMMA BuildPromReaderStep ==
  ASSUME OtelInv, BuildPromReader, pc' = "kinds"
  PROVE  ReadersInv'
<1>1. /\ found' = found /\ prom' = prom /\ file' = file /\ pc = "prom"
      /\ kinds' = ParsePushExporters(Selector("metrics"))
      /\ readers' = (IF prom THEN Append(readers, Prometheus) ELSE readers)
      /\ handler' = prom
  BY DEF BuildPromReader, AddPromReader, Fail, inputs
<1>2. /\ readers = <<>> /\ found.config = Unset /\ env.metrics = found.metrics
      /\ found.metrics \in Seq(Entries) \cup {Unset}
  BY <1>1 DEF OtelInv, ReadersInv, BranchInv, EnvInv, TypesInv, FlagPlaces,
     Environments
<1>3. /\ readers' \in Seq(Kinds \cup {Prometheus}) /\ Distinct(readers)'
      /\ ToSet(readers)' = PromReaders
  <2>1. CASE prom
    <3>1. readers' = <<Prometheus>>
      BY <1>1, <1>2, <2>1
    <3>2. /\ <<Prometheus>> \in Seq(Kinds \cup {Prometheus})
          /\ Distinct(<<Prometheus>>) /\ ToSet(<<Prometheus>>) = {Prometheus}
      BY SingleDistinct
    <3> QED
      BY <2>1, <3>1, <3>2 DEF PromReaders
  <2>2. CASE ~prom
    BY <1>1, <1>2, <2>2, EmptyDistinct DEF PromReaders
  <2> QED
    BY <2>1, <2>2
<1>4. kinds' \in Seq(Kinds) /\ Distinct(kinds)' /\ ToSet(kinds)' = Selected
  <2> DEFINE s == Selector("metrics")
  <2>1. s = IF found.metrics \in {Unset, <<>>} THEN None ELSE found.metrics
    BY <1>2 DEF Selector
  <2>2. None \in Seq(Entries)
    BY KindsAssumption, SingleDistinct DEF None, Entries
  <2>3. s \in Seq(Entries)
    BY <1>2, <2>1, <2>2
  <2> HIDE DEF s
  <2>4. /\ kinds' \in Seq(Kinds) /\ Distinct(kinds)'
        /\ ToSet(kinds)' = IF s = None THEN {} ELSE ToSet(s) \ {"", Prometheus}
    BY <1>1, <2>3, ParsePushExportersSelects DEF s
  <2>5. (IF s = None THEN {} ELSE ToSet(s) \ {"", Prometheus}) = Selected
    <3>1. ToSet(<<>>) = {}
      BY EmptyDistinct
    <3>2. CASE found.metrics \in {Unset, <<>>}
      BY <1>2, <2>1, <3>1, <3>2 DEF Selected
    <3>3. CASE found.metrics \notin {Unset, <<>>}
      BY <1>2, <2>1, <3>3 DEF Selected
    <3> QED
      BY <3>2, <3>3
  <2> QED
    BY <2>4, <2>5
<1>5. Selected' = Selected /\ PromReaders' = PromReaders
  BY <1>1, SelectedStays
<1>6. ToSet(readers)' \cap ToSet(kinds)' = {}
  <2>1. Prometheus \notin Selected
    BY <1>2 DEF Selected
  <2> QED
    BY <1>3, <1>4, <2>1 DEF PromReaders
<1>7. kinds' \in Seq(Kinds) /\ pc' = "kinds" /\ handler' = prom'
  BY <1>1, <1>4
<1> QED
  BY <1>3, <1>4, <1>5, <1>6, <1>7 DEF ReadersInv

\* One exporter's reader is built: it goes from kinds to readers.
LEMMA NewMetricReaderStep ==
  ASSUME OtelInv, NewMetricReader, pc' = "kinds"
  PROVE  ReadersInv'
<1> DEFINE k == Head(kinds)
<1>1. /\ found' = found /\ prom' = prom /\ file' = file /\ handler' = handler
      /\ pc = "reader" /\ kinds' = Tail(kinds)
      /\ readers' = Append(readers, Head(env.metrics))
  BY DEF NewMetricReader, Fail, inputs
<1>2. kinds # <<>> /\ env.metrics = <<k>>
  BY <1>1 DEF OtelInv, EnvInv
<1>3. /\ kinds \in Seq(Kinds) /\ Distinct(kinds)
      /\ readers \in Seq(Kinds \cup {Prometheus}) /\ Distinct(readers)
      /\ handler = prom
      /\ ToSet(readers) \cup ToSet(kinds) = Selected \cup PromReaders
      /\ ToSet(readers) \cap ToSet(kinds) = {}
  BY <1>1 DEF OtelInv, ReadersInv
<1>4. /\ k \in Kinds /\ k \in ToSet(kinds) /\ Tail(kinds) \in Seq(Kinds)
      /\ Distinct(Tail(kinds)) /\ ToSet(Tail(kinds)) = ToSet(kinds) \ {k}
  BY <1>2, <1>3, HeadTailProperties, DistinctTail
<1> HIDE DEF k
<1>5. readers' = Append(readers, k)
  BY <1>1, <1>2
<1>6. /\ Append(readers, k) \in Seq(Kinds \cup {Prometheus})
      /\ Distinct(Append(readers, k))
      /\ ToSet(Append(readers, k)) = ToSet(readers) \cup {k}
  <2>1. k \in Kinds \cup {Prometheus} /\ k \notin ToSet(readers)
    BY <1>3, <1>4
  <2> QED
    BY <1>3, <2>1, AppendProperties, DistinctAppend, ToSetAppend
<1>7. Selected' = Selected /\ PromReaders' = PromReaders
  BY <1>1, SelectedStays
<1>8. /\ ToSet(readers)' \cup ToSet(kinds)' = Selected' \cup PromReaders'
      /\ ToSet(readers)' \cap ToSet(kinds)' = {}
  BY <1>1, <1>3, <1>4, <1>5, <1>6, <1>7
<1> QED
  BY <1>1, <1>3, <1>4, <1>5, <1>6, <1>8 DEF ReadersInv

\* The reader for the file's meter provider, which then is there.
LEMMA AddYAMLPromReaderStep ==
  ASSUME OtelInv, AddYAMLPromReader, pc' = "yaml env"
  PROVE  ReadersInv'
<1>1. /\ prom' = prom /\ pc = "yaml prom" /\ kinds' = kinds
      /\ readers' = (IF prom THEN Append(readers, Prometheus) ELSE readers)
      /\ handler' = prom
      /\ file' = (IF prom /\ file = "absent" THEN "empty" ELSE file)
  BY DEF AddYAMLPromReader, AddPromReader, Fail
<1>2. readers = <<>> /\ kinds \in Seq(Kinds) /\ Distinct(kinds)
  BY <1>1 DEF OtelInv, ReadersInv
<1>3. readers' = (IF prom THEN <<Prometheus>> ELSE <<>>)
  <2>1. CASE prom
    <3>1. readers' = Append(<<>>, Prometheus)
      BY <1>1, <1>2, <2>1
    <3>2. readers' = <<Prometheus>>
      BY <3>1, ShortSequences
    <3> QED
      BY <2>1, <3>2
  <2>2. CASE ~prom
    BY <1>1, <1>2, <2>2
  <2> QED
    BY <2>1, <2>2
<1>4. readers' \in Seq(Kinds \cup {Prometheus}) /\ Distinct(readers)'
  <2>1. /\ <<Prometheus>> \in Seq(Kinds \cup {Prometheus})
        /\ Distinct(<<Prometheus>>)
    BY SingleDistinct
  <2>2. <<>> \in Seq(Kinds \cup {Prometheus}) /\ Distinct(<<>>)
    BY EmptyDistinct
  <2> QED
    BY <1>3, <2>1, <2>2
<1>5. /\ handler' = prom' /\ (prom' => file' # "absent")
      /\ readers' = IF prom' THEN <<Prometheus>> ELSE <<>>
  <2>1. CASE prom
    BY <1>1, <1>3, <2>1
  <2>2. CASE ~prom
    BY <1>1, <1>3, <2>2
  <2> QED
    BY <2>1, <2>2
<1>6. kinds' \in Seq(Kinds) /\ Distinct(kinds)' /\ pc' = "yaml env"
  BY <1>1, <1>2
<1> QED
  BY <1>4, <1>5, <1>6 DEF ReadersInv

\* The SDK of the file has the reader it is handed and the one it declares.
LEMMA NewSDKStep ==
  ASSUME OtelInv, NewSDK, pc' = "built"
  PROVE  ReadersInv'
<1> DEFINE T == Kinds \cup {Prometheus, "push"}
<1>1. /\ found' = found /\ prom' = prom /\ file' = file /\ handler' = handler
      /\ pc = "yaml sdk" /\ installed' = SDKReaders /\ UNCHANGED <<kinds, readers>>
  BY DEF NewSDK, Fail, inputs
<1>2. /\ env.config = Unset /\ found.config # Unset /\ prom \in BOOLEAN
      /\ handler = prom /\ readers = (IF prom THEN <<Prometheus>> ELSE <<>>)
      /\ prom => file # "absent"
      /\ kinds \in Seq(Kinds) /\ Distinct(kinds)
      /\ readers \in Seq(Kinds \cup {Prometheus}) /\ Distinct(readers)
  BY <1>1 DEF OtelInv, TypesInv, EnvInv, BranchInv, ReadersInv, FilePlaces
<1>3. Selected' = Selected /\ PromReaders' = PromReaders
  BY <1>1, SelectedStays
<1>4. /\ <<>> \in Seq(T) /\ Distinct(<<>>) /\ ToSet(<<>>) = {}
      /\ \A e \in T : <<e>> \in Seq(T) /\ Distinct(<<e>>) /\ ToSet(<<e>>) = {e}
  BY EmptyDistinct, SingleDistinct
<1>5. /\ <<Prometheus, "push">> \in Seq(T) /\ Distinct(<<Prometheus, "push">>)
      /\ ToSet(<<Prometheus, "push">>) = {Prometheus, "push"}
  BY DEF Distinct, ToSet, Prometheus
<1>6. /\ SDKReaders \in Seq(T) /\ Distinct(SDKReaders)
      /\ ToSet(SDKReaders) = Selected \cup PromReaders
  <2>1. Prometheus \in T /\ "push" \in T /\ Selected = ToSet(Declared)
    BY <1>2 DEF Selected
  <2> HIDE DEF T
  <2>2. CASE prom /\ file = "push"
    <3>1. SDKReaders = readers \o Declared /\ Declared = <<"push">>
      BY <1>2, <2>2 DEF SDKReaders, Declared
    <3>2. readers = <<Prometheus>>
      BY <1>2, <2>2
    <3>3. SDKReaders = <<Prometheus, "push">>
      BY <3>1, <3>2, ShortSequences
    <3> QED
      BY <1>4, <1>5, <2>1, <2>2, <3>1, <3>3 DEF PromReaders
  <2>3. CASE prom /\ file # "push"
    <3>1. SDKReaders = readers \o Declared /\ Declared = <<>>
      BY <1>2, <2>3 DEF SDKReaders, Declared
    <3>2. readers \o <<>> = readers /\ readers = <<Prometheus>>
      BY <1>2, <2>3, ConcatEmptySeq
    <3> QED
      BY <1>4, <2>1, <2>3, <3>1, <3>2 DEF PromReaders
  <2>4. CASE ~prom
    <3>1. SDKReaders = Declared
      BY <1>2, <2>4 DEF SDKReaders, Declared
    <3>2. Declared = <<>> \/ Declared = <<"push">>
      BY DEF Declared
    <3>3. Declared \in Seq(T) /\ Distinct(Declared)
      BY <1>4, <2>1, <3>2
    <3>4. PromReaders = {}
      BY <2>4 DEF PromReaders
    <3> QED
      BY <2>1, <3>1, <3>3, <3>4
  <2> QED
    BY <2>2, <2>3, <2>4
<1> QED
  BY <1>1, <1>2, <1>3, <1>6 DEF ReadersInv

\* The readers.
LEMMA ReadersStep == OtelInv /\ Next => ReadersInv'
<1> SUFFICES ASSUME OtelInv, Next
             PROVE  ReadersInv'
  OBVIOUS
<1>0. ReadersInv /\ TypesInv
  BY DEF OtelInv
\* Nothing is asked of the readers once Setup has failed or Shutdown has begun.
<1>1. ASSUME UNCHANGED <<kinds, readers>>, pc' \in {"failed", "shutdown", "down"}
      PROVE  ReadersInv'
  BY <1>0, <1>1 DEF ReadersInv
<1>2. CASE BuildResource \/ ReadConfigFile
  <2>1. /\ UNCHANGED <<kinds, readers>> /\ pc = "setup"
        /\ pc' \in {"prom", "yaml prom", "failed"}
    BY <1>2 DEF BuildResource, ReadConfigFile, Fail, built
  <2> QED
    BY <1>0, <2>1 DEF ReadersInv
<1>3. CASE BuildPromReader
  <2>1. CASE pc' = "kinds"
    BY <1>3, <2>1, BuildPromReaderStep
  <2>2. CASE pc' # "kinds"
    BY <1>1, <1>3, <2>2 DEF BuildPromReader, Fail, built
  <2> QED
    BY <2>1, <2>2
<1>4. CASE NewMetricReader
  <2>1. CASE pc' = "kinds"
    BY <1>4, <2>1, NewMetricReaderStep
  <2>2. CASE pc' # "kinds"
    BY <1>1, <1>4, <2>2 DEF NewMetricReader, Fail, built
  <2> QED
    BY <2>1, <2>2
<1>5. CASE SetEnvScoped
  <2>1. /\ UNCHANGED <<found, prom, file, kinds, readers, handler>>
        /\ pc = "kinds" /\ pc' = "reader"
    BY <1>5 DEF SetEnvScoped, inputs, built
  <2> QED
    BY <1>0, <2>1, SelectedStays DEF ReadersInv
<1>6. CASE InstallMeterProvider
  <2>1. /\ UNCHANGED <<found, prom, file, kinds, readers, handler>>
        /\ pc = "kinds" /\ pc' = "traces" /\ kinds = <<>> /\ installed' = readers
    BY <1>6 DEF InstallMeterProvider, inputs
  <2>2. Selected' = Selected /\ PromReaders' = PromReaders
    BY <2>1, SelectedStays
  <2>3. /\ readers \in Seq(Kinds \cup {Prometheus}) /\ Distinct(readers)
        /\ ToSet(readers) = Selected \cup PromReaders /\ handler = prom
    BY <1>0, <2>1, EmptyDistinct DEF ReadersInv
  <2>4. readers \in Seq(Kinds \cup {Prometheus, "push"})
    <3>1. Kinds \cup {Prometheus} \subseteq Kinds \cup {Prometheus, "push"}
      OBVIOUS
    <3> QED
      BY <2>3, <3>1, SeqMonotonic
  <2> QED
    BY <1>0, <2>1, <2>2, <2>3, <2>4 DEF ReadersInv
<1>7. CASE BuildTracerProvider \/ BuildLoggerProvider
  <2>1. /\ UNCHANGED <<found, prom, file, kinds, readers, handler, installed>>
        /\ pc \in {"traces", "logs"} /\ pc' \in {"logs", "built", "failed"}
    BY <1>7 DEF BuildTracerProvider, BuildLoggerProvider, BuildProvider, Fail,
       inputs, built
  <2> QED
    BY <1>0, <2>1, SelectedStays DEF ReadersInv
<1>8. CASE AddYAMLPromReader
  <2>1. CASE pc' = "yaml env"
    BY <1>8, <2>1, AddYAMLPromReaderStep
  <2>2. CASE pc' # "yaml env"
    BY <1>1, <1>8, <2>2 DEF AddYAMLPromReader, Fail, built
  <2> QED
    BY <2>1, <2>2
<1>9. CASE ClearConfigFile
  <2>1. /\ UNCHANGED <<prom, file, kinds, readers, handler>>
        /\ pc = "yaml env" /\ pc' \in {"yaml sdk", "failed"}
    BY <1>9 DEF ClearConfigFile, Fail, inputs, built
  <2> QED
    BY <1>0, <2>1 DEF ReadersInv
<1>10. CASE NewSDK
  <2>1. CASE pc' = "built"
    BY <1>10, <2>1, NewSDKStep
  <2>2. CASE pc' # "built"
    BY <1>1, <1>10, <2>2 DEF NewSDK, Fail, built
  <2> QED
    BY <2>1, <2>2
<1>11. CASE BuildHandler
  <2>1. CASE pc' = "serving"
    <3>1. /\ UNCHANGED <<found, prom, file, path, kinds, readers, handler, installed>>
          /\ pc = "built" /\ routes' = Routes
      BY <1>11, <2>1 DEF BuildHandler, Fail, inputs, built
    <3>2. Routes' = Routes
      BY <3>1 DEF Routes
    <3>3. Selected' = Selected /\ PromReaders' = PromReaders
      BY <3>1, SelectedStays
    <3> QED
      BY <1>0, <2>1, <3>1, <3>2, <3>3 DEF ReadersInv
  <2>2. CASE pc' # "serving"
    BY <1>1, <1>11, <2>2 DEF BuildHandler, Fail, built
  <2> QED
    BY <2>1, <2>2
<1>12. CASE ShutdownNext
  BY <1>1, <1>12 DEF ShutdownNext
<1> QED
  BY <1>2, <1>3, <1>4, <1>5, <1>6, <1>7, <1>8, <1>9, <1>10, <1>11, <1>12
     DEF Next, Setup

\* Every step of Setup and of Shutdown keeps the invariant.
LEMMA StepInv == OtelInv /\ [Next]_vars => OtelInv'
<1>1. OtelInv /\ Next => OtelInv'
  BY EnvStep, ProvidersStep, ReadersStep DEF OtelInv
<1>2. ASSUME OtelInv, UNCHANGED vars PROVE OtelInv'
  <2>1. TypesInv' /\ BranchInv' /\ EnvInv'
    BY <1>2 DEF vars, OtelInv, TypesInv, BranchInv, EnvInv
  <2>2. ProvidersInv'
    BY <1>2 DEF vars, OtelInv, ProvidersInv
  <2>3. ReadersInv'
    <3>1. Selected' = Selected /\ PromReaders' = PromReaders /\ Routes' = Routes
      BY <1>2, SelectedStays DEF vars, Routes
    <3> QED
      BY <1>2, <3>1 DEF vars, OtelInv, ReadersInv
  <2> QED
    BY <2>1, <2>2, <2>3 DEF OtelInv
<1> QED
  BY <1>1, <1>2

-----------------------------------------------------------------------------
(* Theorems.                                                               *)

\* The invariant holds whatever the environment, the flags and the file say, and
\* whichever constructors fail.
THEOREM InductiveInvariant == Spec => []OtelInv
BY InitInv, StepInv, PTL DEF Spec

\* For every list of exporters, the loop of parsePushExporters returns each
\* exporter named, once, never prometheus, and nothing for "none" alone
\* (otel.go:308-334).
THEOREM PushExportersSelected ==
  ASSUME NEW s \in Seq(Entries)
  PROVE  /\ ToSet(ParsePushExporters(s)) =
              IF s = None THEN {} ELSE ToSet(s) \ {"", Prometheus}
         /\ Len(ParsePushExporters(s)) = Cardinality(ToSet(ParsePushExporters(s)))
BY ParsePushExportersSelects, DistinctLength

\* Every variable keeps its type, and at every step Shutdown would call exactly
\* what is running (otel.go:127, 147, 157).
THEOREM TypeCorrect == Spec => []TypeOK
<1>1. OtelInv => TypeOK
  <2> SUFFICES ASSUME OtelInv PROVE TypeOK
    OBVIOUS
  <2>1. ToSet(kinds) \subseteq Kinds /\ ToSet(readers) \subseteq Kinds \cup {Prometheus}
    BY ToSetOfSeq DEF OtelInv, ReadersInv
  <2>2. found.config \in {"file", Unset}
    BY DEF OtelInv, TypesInv, Environments
  <2>3. ToSet(shutdowns) = running
    BY DEF OtelInv, ProvidersInv
  <2>4. /\ prom \in BOOLEAN /\ path \in Paths /\ handler \in BOOLEAN
        /\ file \in {"absent", "empty", "push", "pull"} /\ pc \in Places
    BY DEF OtelInv, TypesInv
  <2> QED
    BY <2>1, <2>2, <2>3, <2>4 DEF TypeOK
<1> QED
  BY <1>1, InductiveInvariant, PTL

\* What serves has the readers the flags or the file ask for, each once, and the
\* Prometheus handler exactly where it should be (otel.go:199-218;
\* config_file.go:62-68; ovs_exporter.go:78-80).
THEOREM ServesWhatIsSelected == Spec => []ReadersAsSelected
<1>1. OtelInv => ReadersAsSelected
  <2> SUFFICES ASSUME OtelInv, pc = "serving"
               PROVE  /\ {r \in routes : r[2] = "metrics"}
                            = IF prom THEN {<<path, "metrics">>} ELSE {}
                      /\ ToSet(installed) = Selected \cup (IF prom THEN {Prometheus} ELSE {})
                      /\ Len(installed) = Cardinality(ToSet(installed))
    BY DEF ReadersAsSelected
  <2>1. /\ handler = prom /\ routes = Routes
        /\ installed \in Seq(Kinds \cup {Prometheus, "push"})
        /\ Distinct(installed)
        /\ ToSet(installed) = Selected \cup PromReaders
    BY DEF OtelInv, ReadersInv
  <2>2. {r \in Routes : r[2] = "metrics"}
          = IF handler THEN {<<path, "metrics">>} ELSE {}
    BY DEF Routes
  <2>3. Len(installed) = Cardinality(ToSet(installed))
    BY <2>1, DistinctLength
  <2> QED
    BY <2>1, <2>2, <2>3 DEF PromReaders
<1> QED
  BY <1>1, InductiveInvariant, PTL

\* However Setup ends, the environment is as main found it, but for the name of
\* the configuration file (otel.go:294-306, config_file.go:17-23, 72-76).
THEOREM EnvironmentRestored == Spec => []EnvironmentAsFound
<1>1. OtelInv => EnvironmentAsFound
  <2> SUFFICES ASSUME OtelInv, pc \in {"serving", "failed"}
               PROVE  /\ [env EXCEPT !.config = found.config] = found
                      /\ env.config \in {found.config, Unset}
    BY DEF EnvironmentAsFound
  <2> QED
    BY DEF OtelInv, TypesInv, EnvInv, Environments
<1> QED
  BY <1>1, InductiveInvariant, PTL

\* Shutdown stops every provider that Setup has started (otel.go:169-177).
THEOREM ShutdownStopsAll == Spec => []ShutdownReachesAll
<1>1. OtelInv => ShutdownReachesAll
  BY EmptyDistinct DEF OtelInv, ProvidersInv, ShutdownReachesAll
<1> QED
  BY <1>1, InductiveInvariant, PTL
=============================================================================
