--------------------------- MODULE ParsersProofs ---------------------------
(***************************************************************************)
(* Theorems about Parsers for any names, any counters and reports of any   *)
(* length: what each parser has in its result after a line is what the     *)
(* lines up to there say.  The invariant to maintain is that the loop's    *)
(* own memory - the current datapath and bridge, the words of the key that *)
(* has begun - is what the lines say too.                                  *)
(***************************************************************************)
EXTENDS Parsers, SequenceTheorems, WellFoundedInduction, TLAPS

-----------------------------------------------------------------------------
(* The last of a set of positions.                                         *)

\* A set of positions up to n has a last one, or is empty and LastOf says 0.
LEMMA LastOfProperties ==
  ASSUME NEW n \in Nat, NEW S \in SUBSET (1 .. n)
  PROVE  /\ LastOf(S) \in {0} \cup S
         /\ \A i \in S : i <= LastOf(S)
         /\ LastOf(S) = 0 <=> S = {}
         /\ LastOf(S) \in 0 .. n
<1> DEFINE LT == {ss \in Nat \X Nat : ss[1] < ss[2]}
           T == {n - i : i \in {0} \cup S}
<1>1. IsWellFoundedOn(LT, Nat)
  BY NatLessThanWellFounded DEF OpToRel
<1>2. T \subseteq Nat /\ T # {}
  OBVIOUS
<1>3. PICK t \in T : \A u \in T : <<u, t>> \notin LT
  BY <1>1, <1>2, WFMin
<1>4. PICK x \in {0} \cup S : t = n - x
  OBVIOUS
<1>5. \A i \in {0} \cup S : x >= i
  <2> TAKE i \in {0} \cup S
  <2>1. n - i \in T /\ n - i \in Nat /\ t \in Nat
    OBVIOUS
  <2>2. <<n - i, t>> \notin LT
    BY <1>3, <2>1
  <2>3. ~(n - i < t)
    BY <2>1, <2>2
  <2> QED  BY <1>4, <2>3
<1> HIDE DEF T, LT
<1>6. /\ Max({0} \cup S) \in {0} \cup S
      /\ \A i \in {0} \cup S : Max({0} \cup S) >= i
  BY <1>5 DEF Max
<1>7. LastOf(S) \in {0} \cup S /\ \A i \in S : LastOf(S) >= i
  BY <1>6 DEF LastOf
<1>8. \A i \in {0} \cup S : i \in 0 .. n /\ (i = 0 <=> i \notin S)
  OBVIOUS
<1>9. LastOf(S) \in 0 .. n
  BY <1>7, <1>8
<1>10. LastOf(S) = 0 <=> S = {}
  BY <1>7, <1>8, <1>9
<1> QED
  BY <1>7, <1>9, <1>10

\* Nothing else is a member that no member is beyond.
LEMMA LastOfIs ==
  ASSUME NEW n \in Nat, NEW S \in SUBSET (1 .. n),
         NEW x \in {0} \cup S, \A i \in S : i <= x
  PROVE  LastOf(S) = x
<1>1. /\ LastOf(S) \in {0} \cup S
      /\ \A i \in S : i <= LastOf(S)
      /\ LastOf(S) \in 0 .. n
  BY LastOfProperties
<1>2. x \in 0 .. n
  OBVIOUS
<1>3. x <= LastOf(S) /\ LastOf(S) <= x
  BY <1>1, <1>2
<1> QED  BY <1>1, <1>2, <1>3

\* No position: 0.
LEMMA LastOfNone == LastOf({}) = 0
BY {} \in SUBSET (1 .. 0), LastOfIs

\* A position beyond the others is the last.
LEMMA LastOfMore ==
  ASSUME NEW n \in Nat, NEW S \in SUBSET (1 .. n)
  PROVE  LastOf(S \cup {n + 1}) = n + 1
<1> DEFINE T == S \cup {n + 1}
<1>1. n + 1 \in Nat /\ T \in SUBSET (1 .. n + 1) /\ n + 1 \in {0} \cup T
  OBVIOUS
<1>2. \A i \in T : i <= n + 1
  OBVIOUS
<1> HIDE DEF T
<1>3. LastOf(T) = n + 1
  BY <1>1, <1>2, LastOfIs
<1> QED  BY <1>3 DEF T

-----------------------------------------------------------------------------
(* One more line.                                                          *)

\* The lines of each report.
Readable(cmd) ==
  CASE cmd = "dpif/show"     -> DatapathLine \cup BridgeLine \cup PortLine
    [] cmd = "dpctl/show"    -> HeaderLine \cup StatsLine(CounterSets)
    [] cmd = "upcall/show"   -> HeaderLine \cup StatsLine(Assignments)
    [] cmd = "memory/show"   -> WordToken \cup ValueToken
    [] cmd = "coverage/show" -> EventLine

LinesInv ==
  /\ command \in Commands /\ Len(lines) <= MaxLines
  /\ lines \in Seq(Readable(command))

\* What every action does to the report.
Reads(l) ==
  /\ LinesInv /\ l \in Readable(command)
  /\ lines' = Append(lines, l) /\ command' = command

Here == Len(lines) + 1

\* The positions of the lines read.
LEMMA Positions ==
  ASSUME LinesInv
  PROVE  /\ Len(lines) \in Nat /\ Here \in Nat /\ DOMAIN lines = 1 .. Len(lines)
         /\ \A i \in DOMAIN lines : lines[i] \in Readable(command)
BY LenProperties, ElementOfSeq DEF LinesInv, Here

\* The lines before stay, and l comes at the next position.
LEMMA ReadLine ==
  ASSUME NEW l, Reads(l)
  PROVE  /\ lines' \in Seq(Readable(command))
         /\ Len(lines') = Here /\ DOMAIN lines' = DOMAIN lines \cup {Here}
         /\ \A i \in DOMAIN lines : lines'[i] = lines[i] /\ i < Here
         /\ lines'[Here] = l /\ Here \notin DOMAIN lines
<1>1. LinesInv
  BY DEF Reads
<1>2. /\ lines' \in Seq(Readable(command))
      /\ Len(lines') = Here
      /\ \A i \in 1 .. Len(lines) : lines'[i] = lines[i]
      /\ lines'[Here] = l
  BY AppendProperties DEF Reads, LinesInv, Here
<1>3. DOMAIN lines' = 1 .. Here
  BY <1>2, LenProperties
<1> QED
  BY <1>1, <1>2, <1>3, Positions DEF Here

\* Of every kind, the lines before and l.
LEMMA OfStep ==
  ASSUME NEW l, Reads(l), NEW k
  PROVE  Of(k)' = Of(k) \cup IF l.kind = k THEN {Here} ELSE {}
BY ReadLine DEF Of

IsHeader(l) ==
  l.kind = "datapath" /\ (command = "dpif/show" => DOMAIN l.sets # {})

\* A header that is read is one more header.
LEMMA HeadersStep ==
  ASSUME NEW l, Reads(l)
  PROVE  Headers' = Headers \cup IF IsHeader(l) THEN {Here} ELSE {}
<1>1. Of("datapath")' = Of("datapath") \cup IF l.kind = "datapath" THEN {Here} ELSE {}
  BY OfStep
<1>2. \A i \in Of("datapath") : i \in DOMAIN lines
  BY DEF Of
<1> QED
  BY <1>1, <1>2, ReadLine DEF Headers, IsHeader, Reads

\* So is a bridge whose name parses.
LEMMA BridgeHeadersStep ==
  ASSUME NEW l, Reads(l)
  PROVE  BridgeHeaders' =
           BridgeHeaders \cup IF l.kind = "bridge" /\ l.name # Garbled THEN {Here} ELSE {}
<1>1. Of("bridge")' = Of("bridge") \cup IF l.kind = "bridge" THEN {Here} ELSE {}
  BY OfStep
<1>2. \A i \in Of("bridge") : i \in DOMAIN lines
  BY DEF Of
<1> QED
  BY <1>1, <1>2, ReadLine DEF BridgeHeaders

-----------------------------------------------------------------------------
(* The last header, and the lines under it.                                *)

HeaderOf(d) == LastOf(Named(Headers, d))

\* Positions of lines, as the lemmas about LastOf want them.
LEMMA HeaderPositions ==
  ASSUME LinesInv
  PROVE  /\ Headers \in SUBSET (1 .. Len(lines))
         /\ BridgeHeaders \in SUBSET (1 .. Len(lines))
         /\ \A k : Of(k) \in SUBSET (1 .. Len(lines))
BY Positions DEF Headers, BridgeHeaders, Of

\* Of the lines S, those with a name that is there have a last one, with that name;
\* the last of all is the last with its name.
LEMMA LastNamed ==
  ASSUME LinesInv, NEW S \in SUBSET (1 .. Len(lines)), NEW x
  PROVE  /\ LastOf(Named(S, x)) \in 0 .. Len(lines)
         /\ x \in NamesIn(S) <=> LastOf(Named(S, x)) # 0
         /\ x \in NamesIn(S) =>
              LastOf(Named(S, x)) \in S /\ lines[LastOf(Named(S, x))].name = x
         /\ S # {} => LastOf(S) \in S /\ LastOf(S) \in 1 .. Len(lines)
         /\ S # {} /\ x = lines[LastOf(S)].name => LastOf(Named(S, x)) = LastOf(S)
<1> DEFINE T == Named(S, x)
<1>1. T \in SUBSET (1 .. Len(lines)) /\ Len(lines) \in Nat
  BY Positions DEF Named
<1>2. T # {} <=> x \in NamesIn(S)
  BY DEF Named, NamesIn
<1>3. \A i \in T : i \in S /\ lines[i].name = x
  BY DEF Named
<1>4. S # {} /\ x = lines[LastOf(S)].name => LastOf(S) \in T
  BY <1>1, LastOfProperties DEF Named
<1> HIDE DEF T
<1>5. /\ LastOf(T) \in {0} \cup T /\ LastOf(T) \in 0 .. Len(lines)
      /\ LastOf(T) = 0 <=> T = {}
  BY <1>1, LastOfProperties
<1>6. /\ LastOf(S) \in {0} \cup S
      /\ \A i \in S : i <= LastOf(S)
      /\ LastOf(S) = 0 <=> S = {}
      /\ LastOf(S) \in 0 .. Len(lines)
  BY <1>1, LastOfProperties
<1>7. S # {} /\ x = lines[LastOf(S)].name => LastOf(T) = LastOf(S)
  <2> SUFFICES ASSUME LastOf(S) \in T
               PROVE  LastOf(T) = LastOf(S)
    BY <1>4
  <2>1. \A i \in T : i <= LastOf(S)
    BY <1>3, <1>6
  <2> QED  BY <1>1, <2>1, LastOfIs
<1> QED
  BY <1>2, <1>3, <1>5, <1>6, <1>7 DEF T

\* So for headers: a datapath that is named has a last header, and the last header
\* of all is the last of its datapath.
LEMMA HeaderOfProperties ==
  ASSUME LinesInv, NEW d
  PROVE  /\ HeaderOf(d) \in 0 .. Len(lines)
         /\ d \in NamesIn(Headers) <=> HeaderOf(d) # 0
         /\ d \in NamesIn(Headers) =>
              HeaderOf(d) \in Headers /\ lines[HeaderOf(d)].name = d
         /\ Headers # {} =>
              LastOf(Headers) \in Headers /\ LastOf(Headers) \in 1 .. Len(lines)
         /\ Headers # {} /\ d = lines[LastOf(Headers)].name =>
              HeaderOf(d) = LastOf(Headers)
BY HeaderPositions, LastNamed DEF HeaderOf

\* A header that is read becomes the last of its datapath, and of all.
LEMMA HeaderOfStep ==
  ASSUME NEW l, Reads(l), NEW d
  PROVE  /\ HeaderOf(d)' = IF IsHeader(l) /\ l.name = d THEN Here ELSE HeaderOf(d)
         /\ LastOf(Headers)' = IF IsHeader(l) THEN Here ELSE LastOf(Headers)
<1>1. /\ LinesInv /\ Len(lines) \in Nat /\ Here = Len(lines) + 1
      /\ Headers \in SUBSET (1 .. Len(lines))
  BY HeaderPositions, Positions DEF Reads, Here
<1>2. Named(Headers, d) \in SUBSET (1 .. Len(lines))
  BY <1>1 DEF Named
<1>3. Named(Headers, d)' =
        Named(Headers, d) \cup IF IsHeader(l) /\ l.name = d THEN {Here} ELSE {}
  BY <1>1, HeadersStep, ReadLine, Positions DEF Named
<1>4. CASE IsHeader(l)
  BY <1>1, <1>2, <1>3, <1>4, HeadersStep, LastOfMore DEF HeaderOf
<1>5. CASE ~IsHeader(l)
  BY <1>3, <1>5, HeadersStep DEF HeaderOf
<1> QED  BY <1>4, <1>5

\* What has been read stays under the header it was under; the line that is read
\* comes under the last header.
LEMMA OverStep ==
  ASSUME NEW l, Reads(l)
  PROVE  /\ \A i \in 1 .. Len(lines) : Over(i)' = Over(i) /\ Over(i) \in 0 .. Len(lines)
         /\ \A i \in {Here} : Over(i)' = LastOf(Headers)
         /\ LastOf(Headers) \in 0 .. Len(lines)
<1>1. /\ LinesInv /\ Len(lines) \in Nat /\ Here = Len(lines) + 1
      /\ Headers \in SUBSET (1 .. Len(lines))
  BY HeaderPositions, Positions DEF Reads, Here
<1>2. /\ \A h \in Headers : h \in Headers' /\ h \in Int /\ h < Here
      /\ \A h \in Headers' : h \in Headers \/ h = Here
  BY <1>1, HeadersStep
<1>3. ASSUME NEW i \in 1 .. Len(lines)
      PROVE  {h \in Headers' : h < i} = {h \in Headers : h < i}
  <2>1. ~(Here < i)
    BY <1>1
  <2> QED  BY <1>2, <2>1
<1>4. {h \in Headers' : h < Here} = Headers
  <2>1. ~(Here < Here)
    BY <1>1
  <2> QED  BY <1>2, <2>1
<1>5. \A i \in 1 .. Len(lines) : Over(i)' = Over(i) /\ Over(i) \in 0 .. Len(lines)
  <2> TAKE i \in 1 .. Len(lines)
  <2>1. {h \in Headers : h < i} \in SUBSET (1 .. Len(lines))
    BY <1>1
  <2>2. LastOf({h \in Headers : h < i}) \in 0 .. Len(lines)
    BY <1>1, <2>1, LastOfProperties
  <2> QED  BY <1>3, <2>2 DEF Over
<1>6. \A i \in {Here} : Over(i)' = LastOf(Headers)
  BY <1>4 DEF Over
<1>7. LastOf(Headers) \in 0 .. Len(lines)
  BY <1>1, LastOfProperties
<1> QED
  BY <1>5, <1>6, <1>7

\* What lines S that have been read and the one that is read come under: a header
\* that is read has nothing under it, any other line is under the last header.
LEMMA UnderStep ==
  ASSUME NEW l, Reads(l), NEW d, NEW S \in SUBSET (1 .. Len(lines))
  PROVE  /\ {i \in S : Over(i)' = HeaderOf(d)'} =
              IF IsHeader(l) /\ l.name = d THEN {} ELSE Under(S, d)
         /\ \A N \in SUBSET {Here} :
              {i \in S \cup N : Over(i)' = HeaderOf(d)'} =
                IF IsHeader(l) /\ l.name = d THEN {}
                ELSE Under(S, d) \cup IF LastOf(Headers) = HeaderOf(d) THEN N ELSE {}
<1>1. LinesInv /\ Len(lines) \in Nat /\ Here = Len(lines) + 1
  BY Positions DEF Reads, Here
<1>2. \A i \in S : Over(i)' = Over(i) /\ Over(i) \in 0 .. Len(lines)
  BY OverStep
<1>3. \A i \in {Here} : Over(i)' = LastOf(Headers) /\ LastOf(Headers) \in 0 .. Len(lines)
  BY OverStep
<1>4. Under(S, d) = {i \in S : Over(i) = HeaderOf(d)}
  BY DEF Under, HeaderOf
<1>5. CASE IsHeader(l) /\ l.name = d
  <2>1. HeaderOf(d)' = Here
    BY <1>5, HeaderOfStep
  <2>2. \A i \in 0 .. Len(lines) : i # Here
    BY <1>1
  <2> QED  BY <1>2, <1>3, <1>5, <2>1, <2>2
<1>6. CASE ~(IsHeader(l) /\ l.name = d)
  <2>1. HeaderOf(d)' = HeaderOf(d)
    BY <1>6, HeaderOfStep
  <2> QED  BY <1>2, <1>3, <1>4, <1>6, <2>1
<1> QED  BY <1>5, <1>6

-----------------------------------------------------------------------------
(* What the loops remember.                                                *)

WithHeaders == {"dpif/show", "dpctl/show", "upcall/show"}

\* The current datapath is the one of the last header.
CurInv ==
  IF command \in WithHeaders /\ Headers # {}
    THEN cur = lines[LastOf(Headers)].name
    ELSE cur = Garbled

\* Names of datapaths are never Garbled.
LEMMA HeaderNames ==
  ASSUME LinesInv, command \in WithHeaders
  PROVE  \A h \in Headers : lines[h].name \in Datapaths /\ lines[h].name # Garbled
<1>1. ASSUME NEW h \in Headers
      PROVE  lines[h].kind = "datapath" /\ lines[h] \in Readable(command)
  BY Positions DEF Headers, Of
<1>2. \A h \in Headers : lines[h].name \in Datapaths
  BY <1>1 DEF Readable, WithHeaders, DatapathLine, BridgeLine, PortLine, HeaderLine,
              StatsLine
<1> QED  BY <1>2, GarbledAssumption

\* The datapath the loop is at is the only one with the last header.
LEMMA CurProperties ==
  ASSUME LinesInv, CurInv, command \in WithHeaders
  PROVE  /\ cur = Garbled <=> Headers = {}
         /\ cur # Garbled => cur \in NamesIn(Headers)
         /\ \A d \in NamesIn(Headers) : LastOf(Headers) = HeaderOf(d) <=> d = cur
<1>1. CASE Headers = {}
  BY <1>1 DEF CurInv, NamesIn
<1>2. CASE Headers # {}
  <2>1. cur = lines[LastOf(Headers)].name
    BY <1>2 DEF CurInv
  <2>2. LastOf(Headers) \in Headers
    BY <1>2, HeaderOfProperties
  <2>3. cur # Garbled /\ cur \in NamesIn(Headers)
    BY <2>1, <2>2, HeaderNames DEF NamesIn
  <2>4. HeaderOf(cur) = LastOf(Headers)
    BY <1>2, <2>1, HeaderOfProperties
  <2>5. \A d \in NamesIn(Headers) : lines[HeaderOf(d)].name = d
    BY HeaderOfProperties
  <2> QED  BY <1>2, <2>1, <2>3, <2>4, <2>5
<1> QED  BY <1>1, <1>2

\* cur follows the headers.
LEMMA CurStep ==
  ASSUME NEW l, Reads(l), CurInv, command \in WithHeaders,
         cur' = IF IsHeader(l) THEN l.name ELSE cur
  PROVE  CurInv'
<1>1. LinesInv /\ command' \in WithHeaders
  BY DEF Reads
<1>2. CASE IsHeader(l)
  <2>1. LastOf(Headers)' = Here /\ Headers' # {}
    BY <1>2, HeaderOfStep, HeadersStep
  <2>2. lines'[Here] = l
    BY ReadLine
  <2> QED  BY <1>1, <1>2, <2>1, <2>2 DEF CurInv
<1>3. CASE ~IsHeader(l)
  <2>1. LastOf(Headers)' = LastOf(Headers) /\ Headers' = Headers
    BY <1>3, HeaderOfStep, HeadersStep
  <2>2. Headers # {} => LastOf(Headers) \in DOMAIN lines
    BY <1>1, HeaderOfProperties, Positions
  <2>3. Headers # {} => lines'[LastOf(Headers)] = lines[LastOf(Headers)]
    BY <2>2, ReadLine
  <2> QED  BY <1>1, <1>3, <2>1, <2>3 DEF CurInv
<1> QED  BY <1>2, <1>3

\* The datapaths of the lines, with the one of a header that is read.
LEMMA NamesStep ==
  ASSUME NEW l, Reads(l)
  PROVE  NamesIn(Headers)' =
           NamesIn(Headers) \cup IF IsHeader(l) THEN {l.name} ELSE {}
<1>1. \A i \in Headers : i \in DOMAIN lines
  BY HeaderPositions, Positions DEF Reads
<1>2. \A i \in Headers : lines'[i] = lines[i]
  BY <1>1, ReadLine
<1>3. lines'[Here] = l
  BY ReadLine
<1>4. Headers' = Headers \cup IF IsHeader(l) THEN {Here} ELSE {}
  BY HeadersStep
<1> QED
  BY <1>2, <1>3, <1>4 DEF NamesIn

-----------------------------------------------------------------------------
(* dpctl/show and upcall/show.                                             *)

\* Line i may set c, if a datapath is current.
Sets(i, c) ==
  c \in DOMAIN lines[i].sets /\ (command = "dpctl/show" => lines[i].indented)

Settings(d, c) == {i \in Under(Of("stats"), d) : Sets(i, c)}

StatsOf(d) ==
  [c \in Counters \cup {h \in Handlers : Setting(d, h) # 0} |->
     IF Setting(d, c) = 0 THEN 0 ELSE lines[Setting(d, c)].sets[c]]

\* Stats, one datapath at a time.
LEMMA StatsByDatapath == Stats = [d \in NamesIn(Headers) |-> StatsOf(d)]
BY DEF Stats, StatsOf

\* The line a counter has its value from.
LEMMA SettingProperties ==
  ASSUME LinesInv, NEW d, NEW c
  PROVE  /\ Settings(d, c) \in SUBSET (1 .. Len(lines))
         /\ Setting(d, c) = LastOf(Settings(d, c))
         /\ Setting(d, c) \in 0 .. Len(lines)
         /\ Setting(d, c) # 0 => Setting(d, c) \in Settings(d, c)
<1>1. Settings(d, c) \in SUBSET (1 .. Len(lines))
  BY HeaderPositions DEF Settings, Under
<1>2. Setting(d, c) = LastOf(Settings(d, c))
  BY DEF Setting, Settings, Sets
<1> QED
  BY <1>1, <1>2, Positions, LastOfProperties

\* A line of counters is the last to set what it holds for the datapath the loop
\* is at; a header leaves its datapath with nothing set.
LEMMA SettingStep ==
  ASSUME NEW l, Reads(l), CurInv, command \in {"dpctl/show", "upcall/show"},
         NEW c, NEW d
  PROVE  /\ IsHeader(l) /\ d = l.name => Setting(d, c)' = 0
         /\ IsHeader(l) /\ d # l.name => Setting(d, c)' = Setting(d, c)
         /\ l.kind = "stats" /\ d \in NamesIn(Headers) =>
              Setting(d, c)' =
                IF /\ d = cur /\ c \in DOMAIN l.sets
                   /\ command = "dpctl/show" => l.indented
                  THEN Here ELSE Setting(d, c)
<1> DEFINE N == IF l.kind = "stats" THEN {Here} ELSE {}
           S == Of("stats")
<1>1. /\ LinesInv /\ command' = command /\ S \in SUBSET (1 .. Len(lines))
      /\ Len(lines) \in Nat /\ Here = Len(lines) + 1
  BY HeaderPositions, Positions DEF Reads, Here
<1>2. /\ Of("stats")' = S \cup N /\ N \in SUBSET {Here}
  BY OfStep
<1>3. Under(Of("stats"), d)' =
        IF IsHeader(l) /\ l.name = d THEN {}
        ELSE Under(S, d) \cup IF LastOf(Headers) = HeaderOf(d) THEN N ELSE {}
  <2> HIDE DEF N, S
  <2>1. Under(Of("stats"), d)' = {i \in S \cup N : Over(i)' = HeaderOf(d)'}
    BY <1>2 DEF Under, HeaderOf
  <2>2. \A M \in SUBSET {Here} :
          {i \in S \cup M : Over(i)' = HeaderOf(d)'} =
            IF IsHeader(l) /\ l.name = d THEN {}
            ELSE Under(S, d) \cup IF LastOf(Headers) = HeaderOf(d) THEN M ELSE {}
    BY <1>1, UnderStep
  <2> QED  BY <1>2, <2>1, <2>2, Zenon
<1>4. /\ \A i \in S : Sets(i, c)' <=> Sets(i, c)
      /\ \A i \in {Here} : Sets(i, c)' <=>
           c \in DOMAIN l.sets /\ (command = "dpctl/show" => l.indented)
  BY <1>1, Positions, ReadLine DEF Sets
<1>5. Setting(d, c)' = LastOf({i \in Under(Of("stats"), d)' : Sets(i, c)'})
  BY DEF Setting, Sets
<1>6. Settings(d, c) = {i \in Under(S, d) : Sets(i, c)} /\ Under(S, d) \subseteq S
  BY DEF Settings, Under
<1>7. Settings(d, c) \in SUBSET (1 .. Len(lines)) /\ Setting(d, c) = LastOf(Settings(d, c))
  BY <1>1, SettingProperties
<1> HIDE DEF S
<1>8. CASE IsHeader(l) /\ d = l.name
  <2>1. Setting(d, c)' = LastOf({})
    BY <1>3, <1>5, <1>8
  <2> QED  BY <1>8, <2>1, LastOfNone DEF IsHeader
<1>9. CASE ~(IsHeader(l) /\ d = l.name) /\ l.kind # "stats"
  BY <1>3, <1>4, <1>5, <1>6, <1>7, <1>9
<1>10. CASE l.kind = "stats"
  <2>1. N = {Here} /\ ~IsHeader(l)
    BY <1>10 DEF IsHeader
  <2> HIDE DEF N
  <2> SUFFICES ASSUME d \in NamesIn(Headers)
               PROVE  Setting(d, c)' =
                        IF /\ d = cur /\ c \in DOMAIN l.sets
                           /\ command = "dpctl/show" => l.indented
                          THEN Here ELSE Setting(d, c)
    BY <2>1
  <2>2. Under(Of("stats"), d)' = Under(S, d) \cup IF d = cur THEN {Here} ELSE {}
    BY <1>1, <1>3, <2>1, CurProperties DEF WithHeaders
  <2>3. {i \in Under(Of("stats"), d)' : Sets(i, c)'} =
          Settings(d, c) \cup
            IF /\ d = cur /\ c \in DOMAIN l.sets
               /\ command = "dpctl/show" => l.indented
              THEN {Here} ELSE {}
    BY <1>4, <1>6, <2>2
  <2>4. LastOf(Settings(d, c) \cup {Here}) = Here
    BY <1>1, <1>7, LastOfMore
  <2> QED  BY <1>5, <1>7, <2>3, <2>4
<1> QED  BY <1>8, <1>9, <1>10 DEF IsHeader

\* The same after a line.
LEMMA StatsByDatapathNext ==
  Stats' = [d \in NamesIn(Headers)' |-> StatsOf(d)']
BY DEF Stats, StatsOf

\* Counters whose last line stays the last keep their values.
LEMMA StatsOfKept ==
  ASSUME NEW l, Reads(l), NEW d, \A c : Setting(d, c)' = Setting(d, c)
  PROVE  StatsOf(d)' = StatsOf(d)
<1>1. \A c : Setting(d, c) # 0 => lines'[Setting(d, c)] = lines[Setting(d, c)]
  <2> TAKE c
  <2> HAVE Setting(d, c) # 0
  <2>1. LinesInv
    BY DEF Reads
  <2>2. Setting(d, c) \in DOMAIN lines
    BY <2>1, SettingProperties, Positions
  <2> QED  BY <2>2, ReadLine
<1>2. {h \in Handlers : Setting(d, h)' # 0} = {h \in Handlers : Setting(d, h) # 0}
  OBVIOUS
<1> QED
  BY <1>1, <1>2 DEF StatsOf

\* A header: its datapath starts from zero again, the others keep what they have.
LEMMA StatsHeader ==
  ASSUME NEW l, Reads(l), CurInv, command \in {"dpctl/show", "upcall/show"},
         IsHeader(l), out = Stats, out' = l.name :> Zero @@ out
  PROVE  out' = Stats'
<1>1. NamesIn(Headers)' = NamesIn(Headers) \cup {l.name}
  BY NamesStep
<1>2. StatsOf(l.name)' = Zero
  <2>1. \A d : d = l.name => \A c : Setting(d, c)' = 0
    BY SettingStep
  <2>2. \A d : d = l.name => StatsOf(d)' = Zero
    BY <2>1 DEF StatsOf, Zero
  <2> QED  BY <2>2
<1>3. \A d : d # l.name => StatsOf(d)' = StatsOf(d)
  <2> TAKE d
  <2> HAVE d # l.name
  <2>1. \A c : Setting(d, c)' = Setting(d, c)
    BY SettingStep
  <2> QED  BY <2>1, StatsOfKept
<1>4. out = [d \in NamesIn(Headers) |-> StatsOf(d)]
  BY StatsByDatapath
<1>5. out' = [d \in NamesIn(Headers) \cup {l.name} |->
                IF d = l.name THEN Zero ELSE StatsOf(d)]
  BY <1>4 DEF :>, @@
<1> QED
  BY <1>1, <1>2, <1>3, <1>5, StatsByDatapathNext

\* A line of counters: what it holds goes over what its datapath has.
LEMMA StatsAssign ==
  ASSUME NEW l, Reads(l), CurInv, command \in {"dpctl/show", "upcall/show"},
         l.kind = "stats", DOMAIN l.sets \subseteq Counters \cup Handlers, out = Stats,
         out' = IF cur # Garbled /\ (command = "dpctl/show" => l.indented)
                  THEN [out EXCEPT ![cur] = l.sets @@ @] ELSE out
  PROVE  out' = Stats'
<1> DEFINE Names == NamesIn(Headers)
           Assigned == cur # Garbled /\ (command = "dpctl/show" => l.indented)
<1>1. LinesInv /\ ~IsHeader(l)
  BY DEF Reads, IsHeader
<1>2. NamesIn(Headers)' = Names
  BY <1>1, NamesStep
<1>3. out = [d \in Names |-> StatsOf(d)]
  BY StatsByDatapath
<1>4. cur # Garbled => cur \in Names
  BY <1>1, CurProperties DEF WithHeaders
<1>5. \A d \in Names : \A c :
        Setting(d, c)' = IF /\ d = cur /\ c \in DOMAIN l.sets
                            /\ command = "dpctl/show" => l.indented
                           THEN Here ELSE Setting(d, c)
  BY SettingStep
<1>6. \A d \in Names : d = cur => cur # Garbled
  BY <1>1, CurProperties DEF WithHeaders, NamesIn
<1> HIDE DEF Names
<1>7. ASSUME NEW d \in Names, ~(Assigned /\ d = cur)
      PROVE  StatsOf(d)' = StatsOf(d)
  <2>1. \A c : Setting(d, c)' = Setting(d, c)
    BY <1>5, <1>6, <1>7
  <2> QED  BY <2>1, StatsOfKept
<1>8. ASSUME NEW d \in Names, Assigned, d = cur
      PROVE  StatsOf(d)' = l.sets @@ StatsOf(d)
  <2> DEFINE C == Counters \cup {h \in Handlers : Setting(d, h) # 0}
  <2>1. \A c : Setting(d, c)' = IF c \in DOMAIN l.sets THEN Here ELSE Setting(d, c)
    BY <1>5, <1>8
  <2>2. \A c : Setting(d, c) # 0 => lines'[Setting(d, c)] = lines[Setting(d, c)]
    <3> TAKE c
    <3> HAVE Setting(d, c) # 0
    <3>1. Setting(d, c) \in DOMAIN lines
      BY <1>1, SettingProperties, Positions
    <3> QED  BY <3>1, ReadLine
  <2>3. Here # 0 /\ lines'[Here] = l
    BY <1>1, Positions, ReadLine DEF Here
  <2>4. Counters \cup {h \in Handlers : Setting(d, h)' # 0} = DOMAIN l.sets \cup C
    BY <2>1, <2>3
  <2>5. StatsOf(d)' =
          [c \in DOMAIN l.sets \cup C |->
             IF c \in DOMAIN l.sets THEN l.sets[c]
             ELSE IF Setting(d, c) = 0 THEN 0 ELSE lines[Setting(d, c)].sets[c]]
    BY <2>1, <2>2, <2>3, <2>4 DEF StatsOf
  <2>6. StatsOf(d) = [c \in C |-> IF Setting(d, c) = 0 THEN 0
                                  ELSE lines[Setting(d, c)].sets[c]]
    BY DEF StatsOf
  <2> HIDE DEF C
  <2> QED  BY <2>5, <2>6 DEF @@
<1>9. out' = [d \in Names |-> IF Assigned /\ d = cur THEN l.sets @@ StatsOf(d)
                              ELSE StatsOf(d)]
  BY <1>3, <1>4
<1> QED
  BY <1>2, <1>7, <1>8, <1>9, StatsByDatapathNext

-----------------------------------------------------------------------------
(* memory/show and coverage/show.                                          *)

\* The words that wait for a value are those of the lines since the last value.
PartsInv ==
  /\ parts \in Seq(Words)
  /\ command = "memory/show" =>
       LET last == LastOf(Of("value"))
       IN  /\ Len(parts) = Len(lines) - last
           /\ \A k \in 1 .. Len(parts) : parts[k] = lines[last + k].name

KeyLines(k) == {i \in Of("value") : KeyAt(i) = k}
Keys == {KeyAt(i) : i \in Of("value")} \ {<<>>}

\* Usage, one key at a time.
LEMMA UsageByKey == Usage = [k \in Keys |-> lines[LastOf(KeyLines(k))].n]
BY DEF Usage, Keys, KeyLines

\* The same after a token.
LEMMA UsageByKeyNext ==
  Usage' = [k \in Keys' |-> lines'[LastOf({i \in Of("value")' : KeyAt(i)' = k})].n]
BY DEF Usage, Keys

\* The keys of the values that have been read do not change.
LEMMA KeyAtStep ==
  ASSUME NEW l, Reads(l)
  PROVE  \A i \in Of("value") : KeyAt(i)' = KeyAt(i)
<1> TAKE i \in Of("value")
<1> DEFINE Before == {j \in Of("value") : j < i}
           last == LastOf(Before)
<1>1. /\ LinesInv /\ Of("value") \in SUBSET (1 .. Len(lines))
      /\ Len(lines) \in Nat /\ Here = Len(lines) + 1 /\ DOMAIN lines = 1 .. Len(lines)
  BY HeaderPositions, Positions DEF Reads, Here
<1>2. Before \in SUBSET (1 .. Len(lines)) /\ i \in 1 .. Len(lines)
  BY <1>1
<1>3. last \in 0 .. Len(lines)
  BY <1>1, <1>2, LastOfProperties
<1>4. {j \in Of("value")' : j < i} = Before
  <2>1. ~(Here < i)
    BY <1>1, <1>2
  <2>2. Of("value")' = Of("value") \cup IF l.kind = "value" THEN {Here} ELSE {}
    BY OfStep
  <2> QED  BY <2>1, <2>2
<1>5. lines'[i] = lines[i]
  BY <1>1, <1>2, ReadLine
<1>6. \A k \in 1 .. i - last - 1 : lines'[last + k] = lines[last + k]
  <2> HIDE DEF last
  <2> TAKE k \in 1 .. i - last - 1
  <2>1. last + k \in 1 .. Len(lines)
    BY <1>1, <1>2, <1>3
  <2> QED  BY <1>1, <2>1, ReadLine
<1>7. [k \in 1 .. i - last - 1 |-> lines'[last + k].name] =
        [k \in 1 .. i - last - 1 |-> lines[last + k].name]
  <2> HIDE DEF last
  <2> QED  BY <1>6
<1> QED
  BY <1>4, <1>5, <1>7 DEF KeyAt

\* The key of a value that is read is the one the parser closes.
LEMMA KeyHere ==
  ASSUME NEW l \in ValueToken, Reads(l), PartsInv, command = "memory/show"
  PROVE  \A i \in {Here} : KeyAt(i)' = Key(l)
<1> DEFINE last == LastOf(Of("value"))
           own == IF l.name = Garbled THEN <<>> ELSE <<l.name>>
<1>1. /\ LinesInv /\ Of("value") \in SUBSET (1 .. Len(lines))
      /\ Len(lines) \in Nat /\ Here = Len(lines) + 1 /\ DOMAIN lines = 1 .. Len(lines)
  BY HeaderPositions, Positions DEF Reads, Here
<1>2. last \in 0 .. Len(lines)
  BY <1>1, LastOfProperties
<1>3. /\ parts \in Seq(Words) /\ Len(parts) = Len(lines) - last
      /\ \A k \in 1 .. Len(parts) : parts[k] = lines[last + k].name
  BY DEF PartsInv
<1>4. {j \in Of("value")' : j < Here} = Of("value")
  <2>1. \A j \in Of("value") : j < Here
    BY <1>1
  <2>2. Of("value")' = Of("value") \cup IF l.kind = "value" THEN {Here} ELSE {}
    BY OfStep
  <2>3. ~(Here < Here)
    BY <1>1
  <2> QED  BY <2>1, <2>2, <2>3
<1>5. lines'[Here] = l
  BY ReadLine
<1> HIDE DEF last
<1>6. [k \in 1 .. Here - last - 1 |-> lines'[last + k].name] = parts
  <2>1. Here - last - 1 = Len(parts)
    BY <1>1, <1>2, <1>3
  <2>2. \A k \in 1 .. Len(parts) : last + k \in 1 .. Len(lines)
    BY <1>1, <1>2, <1>3
  <2>3. \A k \in 1 .. Len(parts) : lines'[last + k].name = parts[k]
    BY <1>1, <1>3, <2>2, ReadLine
  <2>4. parts \in [1 .. Len(parts) -> Words]
    BY <1>3, LenProperties
  <2> QED  BY <2>1, <2>3, <2>4
<1>7. \A i \in {Here} :
        KeyAt(i)' = [k \in 1 .. Here - last - 1 |-> lines'[last + k].name] \o own
  BY <1>4, <1>5 DEF KeyAt, last
<1>8. parts \o own = Key(l)
  <2>1. CASE l.name = Garbled
    BY <1>3, <2>1, ConcatEmptySeq DEF Key
  <2>2. CASE l.name # Garbled
    BY <1>3, <2>2, AppendIsConcat DEF Key, ValueToken
  <2> QED  BY <2>1, <2>2
<1> QED
  BY <1>6, <1>7, <1>8

\* Values that have been read stay where their lines are.
LEMMA KeyLinesProperties ==
  ASSUME LinesInv, NEW k
  PROVE  /\ KeyLines(k) \in SUBSET (1 .. Len(lines))
         /\ k \in Keys => LastOf(KeyLines(k)) \in DOMAIN lines
<1>1. KeyLines(k) \in SUBSET (1 .. Len(lines)) /\ Len(lines) \in Nat
      /\ DOMAIN lines = 1 .. Len(lines)
  BY HeaderPositions, Positions DEF KeyLines
<1>2. k \in Keys => KeyLines(k) # {}
  BY DEF Keys, KeyLines
<1> QED
  BY <1>1, <1>2, LastOfProperties

\* A word changes no key and no value.
LEMMA UsageWord ==
  ASSUME NEW l, Reads(l), l.kind = "word"
  PROVE  Usage' = Usage
<1>1. Of("value")' = Of("value") /\ LinesInv
  BY OfStep DEF Reads
<1>2. \A i \in Of("value") : KeyAt(i)' = KeyAt(i)
  BY KeyAtStep
<1>3. Keys' = Keys
  BY <1>1, <1>2 DEF Keys
<1>4. \A k : {i \in Of("value")' : KeyAt(i)' = k} = KeyLines(k)
  BY <1>1, <1>2 DEF KeyLines
<1>5. \A k \in Keys : lines'[LastOf(KeyLines(k))] = lines[LastOf(KeyLines(k))]
  BY <1>1, KeyLinesProperties, ReadLine
<1> QED
  BY <1>3, <1>4, <1>5, UsageByKey, UsageByKeyNext

\* A value is stored under its key, if it has one, over what was there.
LEMMA UsageValue ==
  ASSUME NEW l \in ValueToken, Reads(l), PartsInv, command = "memory/show", out = Usage,
         out' = IF Key(l) = <<>> THEN out ELSE Key(l) :> l.n @@ out
  PROVE  out' = Usage'
<1>1. Of("value")' = Of("value") \cup {Here} /\ LinesInv
  BY OfStep DEF Reads, ValueToken
<1>2. \A i \in Of("value") : KeyAt(i)' = KeyAt(i)
  BY KeyAtStep
<1>3. \A i \in {Here} : KeyAt(i)' = Key(l)
  BY KeyHere
<1>4. Keys' = Keys \cup ({Key(l)} \ {<<>>})
  BY <1>1, <1>2, <1>3 DEF Keys
<1>5. \A k : {i \in Of("value")' : KeyAt(i)' = k} =
               KeyLines(k) \cup IF k = Key(l) THEN {Here} ELSE {}
  BY <1>1, <1>2, <1>3 DEF KeyLines
<1>6. \A k \in Keys : lines'[LastOf(KeyLines(k))] = lines[LastOf(KeyLines(k))]
  BY <1>1, KeyLinesProperties, ReadLine
<1>7. \A k : LastOf(KeyLines(k) \cup {Here}) = Here
  BY <1>1, KeyLinesProperties, Positions, LastOfMore DEF Here
<1>8. lines'[Here] = l
  BY ReadLine
<1>9. Usage' = [k \in Keys \cup ({Key(l)} \ {<<>>}) |->
                  IF k = Key(l) THEN l.n ELSE lines[LastOf(KeyLines(k))].n]
  BY <1>4, <1>5, <1>6, <1>7, <1>8, UsageByKeyNext
<1>10. <<>> \notin Keys
  BY DEF Keys
<1> QED
  BY <1>9, <1>10, UsageByKey DEF :>, @@

\* The words that wait: one more after a word, none after a value.
LEMMA PartsWord ==
  ASSUME NEW l \in WordToken, Reads(l), PartsInv, command = "memory/show",
         parts' = Append(parts, l.name)
  PROVE  PartsInv'
<1> DEFINE last == LastOf(Of("value"))
<1>1. /\ LinesInv /\ Of("value") \in SUBSET (1 .. Len(lines))
      /\ Len(lines) \in Nat /\ Here = Len(lines) + 1 /\ DOMAIN lines = 1 .. Len(lines)
  BY HeaderPositions, Positions DEF Reads, Here
<1>2. last \in 0 .. Len(lines)
  BY <1>1, LastOfProperties
<1>3. /\ parts \in Seq(Words) /\ Len(parts) = Len(lines) - last
      /\ \A k \in 1 .. Len(parts) : parts[k] = lines[last + k].name
  BY DEF PartsInv
<1>4. /\ parts' \in Seq(Words) /\ Len(parts') = Len(parts) + 1
      /\ \A k \in 1 .. Len(parts) : parts'[k] = parts[k]
      /\ parts'[Len(parts) + 1] = l.name
  BY <1>3, AppendProperties DEF WordToken
<1>5. Of("value")' = Of("value")
  <2>1. l.kind # "value"
    BY DEF WordToken
  <2> QED  BY <2>1, OfStep
<1>6. Len(lines') = Here /\ lines'[Here] = l /\ \A i \in DOMAIN lines : lines'[i] = lines[i]
  BY ReadLine
<1> HIDE DEF last
<1>7. Len(parts') = Len(lines') - last
  BY <1>1, <1>2, <1>3, <1>4, <1>6
<1>8. \A k \in 1 .. Len(parts') : parts'[k] = lines'[last + k].name
  <2> TAKE k \in 1 .. Len(parts')
  <2>1. CASE k = Len(parts) + 1
    BY <1>1, <1>2, <1>3, <1>4, <1>6, <2>1
  <2>2. CASE k \in 1 .. Len(parts)
    <3>1. last + k \in DOMAIN lines
      BY <1>1, <1>2, <1>3, <2>2
    <3> QED  BY <1>3, <1>4, <1>6, <2>2, <3>1
  <2>3. Len(parts) \in Nat
    BY <1>1, <1>2, <1>3
  <2> QED  BY <1>4, <2>1, <2>2, <2>3
<1> QED
  BY <1>4, <1>5, <1>7, <1>8 DEF PartsInv, last

\* A value ends the key: no word waits.
LEMMA PartsValue ==
  ASSUME NEW l \in ValueToken, Reads(l), parts' = <<>>
  PROVE  PartsInv'
<1>1. /\ LinesInv /\ Of("value") \in SUBSET (1 .. Len(lines))
      /\ Len(lines) \in Nat /\ Here = Len(lines) + 1
  BY HeaderPositions, Positions DEF Reads, Here
<1>2. Of("value")' = Of("value") \cup {Here}
  BY OfStep DEF ValueToken
<1>3. LastOf(Of("value"))' = Here
  BY <1>1, <1>2, LastOfMore
<1>4. Len(lines') = Here
  BY ReadLine
<1>5. parts' \in Seq(Words) /\ Len(parts') = 0
  BY EmptySeq
<1>6. Here - Here = 0 /\ 1 .. 0 = {}
  BY <1>1
<1> QED
  BY <1>3, <1>4, <1>5, <1>6 DEF PartsInv

Rows == {i \in Of("event") : lines[i].n # Garbled}

\* Events by rows whose count parses, before and after a line.
LEMMA EventsByRow ==
  /\ Events = [k \in {<<w>> : w \in NamesIn(Rows)} |-> lines[LastOf(Named(Rows, k[1]))].n]
  /\ Events' = [k \in {<<w>> : w \in NamesIn(Rows)'} |->
                  lines'[LastOf(Named(Rows, k[1]))'].n]
BY DEF Events, Rows

\* A row with a count is stored under its name, over what was there.
LEMMA EventsRow ==
  ASSUME NEW l \in EventLine, Reads(l), out = Events,
         out' = IF l.n = Garbled THEN out ELSE <<l.name>> :> l.n @@ out
  PROVE  out' = Events'
<1>1. /\ LinesInv /\ Of("event") \in SUBSET (1 .. Len(lines))
      /\ Len(lines) \in Nat /\ Here = Len(lines) + 1 /\ DOMAIN lines = 1 .. Len(lines)
  BY HeaderPositions, Positions DEF Reads, Here
<1>2. Of("event")' = Of("event") \cup {Here}
  BY OfStep DEF EventLine
<1>3. lines'[Here] = l /\ \A i \in DOMAIN lines : lines'[i] = lines[i]
  BY ReadLine
<1>4. Rows \in SUBSET (1 .. Len(lines))
  BY <1>1 DEF Rows
<1>5. Rows' = Rows \cup IF l.n = Garbled THEN {} ELSE {Here}
  BY <1>1, <1>2, <1>3 DEF Rows
<1>6. \A w : /\ Named(Rows, w)' = Named(Rows, w) \cup
                     IF l.n # Garbled /\ l.name = w THEN {Here} ELSE {}
             /\ Named(Rows, w) \in SUBSET (1 .. Len(lines))
  BY <1>1, <1>3, <1>4, <1>5 DEF Named
<1>7. NamesIn(Rows)' = NamesIn(Rows) \cup IF l.n = Garbled THEN {} ELSE {l.name}
  BY <1>1, <1>3, <1>4, <1>5 DEF NamesIn
<1>8. \A w \in NamesIn(Rows) : lines'[LastOf(Named(Rows, w))] = lines[LastOf(Named(Rows, w))]
  <2> TAKE w \in NamesIn(Rows)
  <2>1. Named(Rows, w) # {}
    BY DEF Named, NamesIn
  <2>2. LastOf(Named(Rows, w)) \in DOMAIN lines
    BY <1>1, <1>6, <2>1, LastOfProperties
  <2> QED  BY <1>3, <2>2
<1>9. \A w : LastOf(Named(Rows, w) \cup {Here}) = Here
  BY <1>1, <1>6, LastOfMore
<1>10. \A w : LastOf(Named(Rows, w))' =
                IF l.n # Garbled /\ l.name = w THEN Here ELSE LastOf(Named(Rows, w))
  BY <1>6, <1>9
<1>11. CASE l.n = Garbled
  <2>1. \A w \in NamesIn(Rows) :
          lines'[LastOf(Named(Rows, w))'].n = lines[LastOf(Named(Rows, w))].n
    BY <1>8, <1>10, <1>11
  <2>2. \A k \in {<<w>> : w \in NamesIn(Rows)} :
          lines'[LastOf(Named(Rows, k[1]))'].n = lines[LastOf(Named(Rows, k[1]))].n
    BY <2>1
  <2>3. NamesIn(Rows)' = NamesIn(Rows)
    BY <1>7, <1>11
  <2> QED  BY <1>11, <2>2, <2>3, EventsByRow
<1>12. CASE l.n # Garbled
  <2> DEFINE K == {<<w>> : w \in NamesIn(Rows)}
  <2>1. {<<w>> : w \in NamesIn(Rows)'} = K \cup {<<l.name>>}
    BY <1>7, <1>12
  <2>2. \A k \in K \cup {<<l.name>>} :
          lines'[LastOf(Named(Rows, k[1]))'].n =
            IF k = <<l.name>> THEN l.n ELSE lines[LastOf(Named(Rows, k[1]))].n
    BY <1>3, <1>8, <1>10, <1>12
  <2>3. out = [k \in K |-> lines[LastOf(Named(Rows, k[1]))].n]
    BY EventsByRow
  <2>4. Events' = [k \in K \cup {<<l.name>>} |->
                     IF k = <<l.name>> THEN l.n ELSE lines[LastOf(Named(Rows, k[1]))].n]
    BY <2>1, <2>2, EventsByRow
  <2> HIDE DEF K
  <2> QED  BY <1>12, <2>3, <2>4 DEF :>, @@
<1> QED  BY <1>11, <1>12

-----------------------------------------------------------------------------
(* dpif/show.                                                              *)

BridgesOf(d) == Under(BridgeHeaders, d)
PortLines == {i \in Of("port") : lines[i].name # Garbled}
PortsOf(d) == Under(PortLines, d)

\* The bridge of d that line i is under, by its header.
Above(d, i) == LastOf({j \in BridgesOf(d) : j < i})

BridgeMap(d) ==
  [b \in NamesIn(BridgesOf(d)) |->
     EntriesOf({i \in PortsOf(d) : Above(d, i) = LastOf(Named(BridgesOf(d), b))})]

DatapathOf(d) ==
  [lookups |-> lines[HeaderOf(d)].sets @@ Zero, bridges |-> BridgeMap(d)]

\* Topology, one datapath at a time, before and after a line.
LEMMA TopologyByDatapath ==
  /\ Topology = [d \in NamesIn(Headers) |-> DatapathOf(d)]
  /\ Topology' = [d \in NamesIn(Headers)' |-> DatapathOf(d)']
<1>1. \A d, b : PortsUnder(d, b) =
        {i \in PortsOf(d) : Above(d, i) = LastOf(Named(BridgesOf(d), b))}
  BY DEF PortsUnder, PortsOf, PortLines, Above, BridgesOf
<1>2. \A d, b : PortsUnder(d, b)' =
        {i \in PortsOf(d) : Above(d, i) = LastOf(Named(BridgesOf(d), b))}'
  BY DEF PortsUnder, PortsOf, PortLines, Above, BridgesOf
<1>3. Topology = [d \in NamesIn(Headers) |-> DatapathOf(d)]
  BY <1>1 DEF Topology, DatapathOf, BridgeMap, HeaderOf, BridgesOf
<1>4. Topology' = [d \in NamesIn(Headers)' |-> DatapathOf(d)']
  BY <1>2 DEF Topology, DatapathOf, BridgeMap, HeaderOf, BridgesOf
<1> QED  BY <1>3, <1>4

\* Positions of bridges and ports.
LEMMA BridgePositions ==
  ASSUME LinesInv, NEW d
  PROVE  /\ BridgesOf(d) \in SUBSET (1 .. Len(lines))
         /\ PortsOf(d) \in SUBSET (1 .. Len(lines))
         /\ PortLines \in SUBSET (1 .. Len(lines))
BY HeaderPositions DEF BridgesOf, PortsOf, PortLines, Under

\* Bridges and ports the parser knows.
NewBridge(l) == l.kind = "bridge" /\ l.name # Garbled
NewPort(l) == l.kind = "port" /\ l.name # Garbled

\* A bridge or a port that is read comes under the last header.
LEMMA UnderBridgesStep ==
  ASSUME NEW l, Reads(l), NEW d
  PROVE  /\ BridgesOf(d)' =
              IF IsHeader(l) /\ l.name = d THEN {}
              ELSE BridgesOf(d) \cup
                     IF NewBridge(l) /\ LastOf(Headers) = HeaderOf(d) THEN {Here} ELSE {}
         /\ PortsOf(d)' =
              IF IsHeader(l) /\ l.name = d THEN {}
              ELSE PortsOf(d) \cup
                     IF NewPort(l) /\ LastOf(Headers) = HeaderOf(d) THEN {Here} ELSE {}
<1>1. LinesInv
  BY DEF Reads
<1>2. /\ BridgeHeaders \in SUBSET (1 .. Len(lines))
      /\ PortLines \in SUBSET (1 .. Len(lines))
  BY <1>1, HeaderPositions, BridgePositions
<1>3. ASSUME NEW S \in SUBSET (1 .. Len(lines))
      PROVE  \A N \in SUBSET {Here} :
               {i \in S \cup N : Over(i)' = HeaderOf(d)'} =
                 IF IsHeader(l) /\ l.name = d THEN {}
                 ELSE Under(S, d) \cup IF LastOf(Headers) = HeaderOf(d) THEN N ELSE {}
  BY <1>3, UnderStep
<1>4. BridgesOf(d)' =
        {i \in BridgeHeaders \cup (IF NewBridge(l) THEN {Here} ELSE {}) :
           Over(i)' = HeaderOf(d)'}
  BY BridgeHeadersStep DEF BridgesOf, Under, HeaderOf, NewBridge
<1>5. PortLines' = PortLines \cup IF NewPort(l) THEN {Here} ELSE {}
  <2>1. Of("port")' = Of("port") \cup IF l.kind = "port" THEN {Here} ELSE {}
    BY OfStep
  <2>2. \A i \in Of("port") : i \in DOMAIN lines
    BY DEF Of
  <2> QED  BY <2>1, <2>2, ReadLine DEF PortLines, NewPort
<1>6. PortsOf(d)' =
        {i \in PortLines \cup (IF NewPort(l) THEN {Here} ELSE {}) :
           Over(i)' = HeaderOf(d)'}
  BY <1>5 DEF PortsOf, Under, HeaderOf
<1>7. /\ (IF NewBridge(l) THEN {Here} ELSE {}) \in SUBSET {Here}
      /\ (IF NewPort(l) THEN {Here} ELSE {}) \in SUBSET {Here}
  OBVIOUS
<1>8. {i \in BridgeHeaders \cup (IF NewBridge(l) THEN {Here} ELSE {}) :
         Over(i)' = HeaderOf(d)'} =
        IF IsHeader(l) /\ l.name = d THEN {}
        ELSE Under(BridgeHeaders, d) \cup
               IF LastOf(Headers) = HeaderOf(d)
                 THEN IF NewBridge(l) THEN {Here} ELSE {} ELSE {}
  BY <1>2, <1>3, <1>7, Zenon
<1>9. {i \in PortLines \cup (IF NewPort(l) THEN {Here} ELSE {}) :
         Over(i)' = HeaderOf(d)'} =
        IF IsHeader(l) /\ l.name = d THEN {}
        ELSE Under(PortLines, d) \cup
               IF LastOf(Headers) = HeaderOf(d)
                 THEN IF NewPort(l) THEN {Here} ELSE {} ELSE {}
  BY <1>2, <1>3, <1>7, Zenon
<1> QED
  BY <1>4, <1>6, <1>8, <1>9 DEF BridgesOf, PortsOf

\* Lines before stay under the bridge they were under, unless their datapath starts
\* again; the line that is read is under the last bridge.
LEMMA AboveStep ==
  ASSUME NEW l, Reads(l), NEW d, ~(IsHeader(l) /\ l.name = d)
  PROVE  /\ \A i \in 1 .. Len(lines) :
              Above(d, i)' = Above(d, i) /\ Above(d, i) \in 0 .. Len(lines)
         /\ \A i \in {Here} : Above(d, i)' = LastOf(BridgesOf(d))
<1>1. /\ LinesInv /\ Len(lines) \in Nat /\ Here = Len(lines) + 1
      /\ BridgesOf(d) \in SUBSET (1 .. Len(lines))
  BY BridgePositions, Positions DEF Reads, Here
<1>2. /\ \A j \in BridgesOf(d) : j \in BridgesOf(d)' /\ j \in Int /\ j < Here
      /\ \A j \in BridgesOf(d)' : j \in BridgesOf(d) \/ j = Here
  BY <1>1, UnderBridgesStep
<1>3. ASSUME NEW i \in 1 .. Len(lines)
      PROVE  {j \in BridgesOf(d)' : j < i} = {j \in BridgesOf(d) : j < i}
  <2>1. ~(Here < i)
    BY <1>1
  <2> QED  BY <1>2, <2>1
<1>4. {j \in BridgesOf(d)' : j < Here} = BridgesOf(d)
  <2>1. ~(Here < Here)
    BY <1>1
  <2> QED  BY <1>2, <2>1
<1>5. \A i \in 1 .. Len(lines) : Above(d, i)' = Above(d, i) /\ Above(d, i) \in 0 .. Len(lines)
  <2> TAKE i \in 1 .. Len(lines)
  <2>1. {j \in BridgesOf(d) : j < i} \in SUBSET (1 .. Len(lines))
    BY <1>1
  <2>2. LastOf({j \in BridgesOf(d) : j < i}) \in 0 .. Len(lines)
    BY <1>1, <2>1, LastOfProperties
  <2> QED  BY <1>3, <2>2 DEF Above
<1>6. \A i \in {Here} : Above(d, i)' = LastOf(BridgesOf(d))
  BY <1>4 DEF Above
<1> QED
  BY <1>5, <1>6

\* The names of lines that have been read stay.
LEMMA NamesKept ==
  ASSUME NEW l, Reads(l), NEW S \in SUBSET (1 .. Len(lines)), NEW x
  PROVE  /\ {lines'[i].name : i \in S} = NamesIn(S)
         /\ {i \in S : lines'[i].name = x} = Named(S, x)
         /\ {lines'[i].name : i \in S \cup {Here}} = NamesIn(S) \cup {l.name}
         /\ {i \in S \cup {Here} : lines'[i].name = x} =
              Named(S, x) \cup IF l.name = x THEN {Here} ELSE {}
<1>1. \A i \in S : lines'[i] = lines[i]
  BY Positions, ReadLine DEF Reads
<1>2. lines'[Here] = l
  BY ReadLine
<1> QED
  BY <1>1, <1>2 DEF NamesIn, Named

\* And the entries of the lines.
LEMMA EntriesKept ==
  ASSUME NEW l, Reads(l), NEW S \in SUBSET (1 .. Len(lines))
  PROVE  /\ {<<i, lines'[i].name>> : i \in S} = EntriesOf(S)
         /\ {<<i, lines'[i].name>> : i \in S \cup {Here}} =
              EntriesOf(S) \cup {<<Here, l.name>>}
<1>1. \A i \in S : lines'[i] = lines[i]
  BY Positions, ReadLine DEF Reads
<1>2. lines'[Here] = l
  BY ReadLine
<1> QED
  BY <1>1, <1>2 DEF EntriesOf

PortsBelow(d, b) ==
  {i \in PortsOf(d) : Above(d, i) = LastOf(Named(BridgesOf(d), b))}

\* The bridges of a datapath, one at a time, before and after a line.
LEMMA BridgeMapByBridge ==
  ASSUME NEW d
  PROVE  /\ BridgeMap(d) = [b \in NamesIn(BridgesOf(d)) |-> EntriesOf(PortsBelow(d, b))]
         /\ BridgeMap(d)' =
              [b \in NamesIn(BridgesOf(d))' |-> EntriesOf(PortsBelow(d, b))']
BY DEF BridgeMap, PortsBelow

\* A datapath whose header is read has no bridge yet.
LEMMA BridgeMapHeader ==
  ASSUME NEW l, Reads(l), NEW d, IsHeader(l), l.name = d
  PROVE  BridgeMap(d)' = <<>>
<1>1. BridgesOf(d)' = {}
  BY UnderBridgesStep
<1>2. NamesIn(BridgesOf(d))' = {}
  BY <1>1 DEF NamesIn
<1>3. BridgeMap(d)' = [b \in {} |-> EntriesOf(PortsBelow(d, b))']
  BY <1>2, BridgeMapByBridge
<1> QED
  BY <1>3

\* Where neither a bridge nor a port comes in, the bridges stay as they are.
LEMMA BridgeMapKept ==
  ASSUME NEW l, Reads(l), NEW d, ~(IsHeader(l) /\ l.name = d),
         LastOf(Headers) = HeaderOf(d) => ~NewBridge(l) /\ ~NewPort(l)
  PROVE  BridgeMap(d)' = BridgeMap(d)
<1>1. LinesInv
  BY DEF Reads
<1>2. BridgesOf(d)' = BridgesOf(d) /\ PortsOf(d)' = PortsOf(d)
  BY UnderBridgesStep
<1>3. /\ BridgesOf(d) \in SUBSET (1 .. Len(lines))
      /\ PortsOf(d) \in SUBSET (1 .. Len(lines))
  BY <1>1, BridgePositions
<1>4. \A b : Named(BridgesOf(d), b)' = Named(BridgesOf(d), b)
  BY <1>2, <1>3, NamesKept DEF Named
<1>5. NamesIn(BridgesOf(d))' = NamesIn(BridgesOf(d))
  BY <1>2, <1>3, NamesKept DEF NamesIn
<1>6. \A b : PortsBelow(d, b)' = PortsBelow(d, b)
  <2>1. \A i \in PortsOf(d) : Above(d, i)' = Above(d, i)
    BY <1>3, AboveStep
  <2> QED  BY <1>2, <1>4, <2>1 DEF PortsBelow
<1>7. \A b : EntriesOf(PortsBelow(d, b))' = EntriesOf(PortsBelow(d, b))
  <2> TAKE b
  <2>1. PortsBelow(d, b) \in SUBSET (1 .. Len(lines))
    BY <1>3 DEF PortsBelow
  <2>2. {<<i, lines'[i].name>> : i \in PortsBelow(d, b)} = EntriesOf(PortsBelow(d, b))
    BY <2>1, EntriesKept
  <2> QED  BY <1>6, <2>2 DEF EntriesOf
<1> QED
  BY <1>5, <1>7, BridgeMapByBridge

\* A bridge that is read has no port yet, and the other bridges of its datapath keep
\* theirs.
LEMMA BridgeMapBridge ==
  ASSUME NEW l, Reads(l), NEW d, NewBridge(l), LastOf(Headers) = HeaderOf(d)
  PROVE  BridgeMap(d)' = l.name :> {} @@ BridgeMap(d)
<1>1. /\ LinesInv /\ ~IsHeader(l) /\ ~NewPort(l)
      /\ Len(lines) \in Nat /\ Here = Len(lines) + 1
  BY Positions DEF Reads, IsHeader, NewBridge, NewPort, Here
<1>2. BridgesOf(d)' = BridgesOf(d) \cup {Here} /\ PortsOf(d)' = PortsOf(d)
  BY <1>1, UnderBridgesStep
<1>3. /\ BridgesOf(d) \in SUBSET (1 .. Len(lines))
      /\ PortsOf(d) \in SUBSET (1 .. Len(lines))
  BY <1>1, BridgePositions
<1>4. \A b : Named(BridgesOf(d), b)' =
               Named(BridgesOf(d), b) \cup IF l.name = b THEN {Here} ELSE {}
  <2> TAKE b
  <2>1. Named(BridgesOf(d), b)' = {i \in BridgesOf(d) \cup {Here} : lines'[i].name = b}
    BY <1>2 DEF Named
  <2> QED  BY <1>3, <2>1, NamesKept
<1>5. NamesIn(BridgesOf(d))' = NamesIn(BridgesOf(d)) \cup {l.name}
  <2>1. NamesIn(BridgesOf(d))' = {lines'[i].name : i \in BridgesOf(d) \cup {Here}}
    BY <1>2 DEF NamesIn
  <2> QED  BY <1>3, <2>1, NamesKept
<1>6. \A i \in PortsOf(d) : Above(d, i)' = Above(d, i) /\ Above(d, i) \in 0 .. Len(lines)
  BY <1>1, <1>3, AboveStep
<1>7. \A b : b # l.name => PortsBelow(d, b)' = PortsBelow(d, b)
  <2> TAKE b
  <2> HAVE b # l.name
  <2>1. Named(BridgesOf(d), b)' = Named(BridgesOf(d), b)
    BY <1>4
  <2> QED  BY <1>2, <1>6, <2>1 DEF PortsBelow
<1>8. \A b : b = l.name => PortsBelow(d, b)' = {}
  <2> TAKE b
  <2> HAVE b = l.name
  <2>1. Named(BridgesOf(d), b)' = Named(BridgesOf(d), b) \cup {Here}
    BY <1>4
  <2>2. Named(BridgesOf(d), b) \in SUBSET (1 .. Len(lines))
    BY <1>3 DEF Named
  <2>3. LastOf(Named(BridgesOf(d), b))' = Here
    BY <1>1, <2>1, <2>2, LastOfMore
  <2>4. \A i \in 0 .. Len(lines) : i # Here
    BY <1>1
  <2> QED  BY <1>2, <1>6, <2>3, <2>4 DEF PortsBelow
<1>9. \A b : EntriesOf(PortsBelow(d, b))' =
               IF b = l.name THEN {} ELSE EntriesOf(PortsBelow(d, b))
  <2> TAKE b
  <2>1. PortsBelow(d, b) \in SUBSET (1 .. Len(lines))
    BY <1>3 DEF PortsBelow
  <2>2. {<<i, lines'[i].name>> : i \in PortsBelow(d, b)} = EntriesOf(PortsBelow(d, b))
    BY <2>1, EntriesKept
  <2>3. EntriesOf(PortsBelow(d, b))' = {<<i, lines'[i].name>> : i \in PortsBelow(d, b)'}
    BY DEF EntriesOf
  <2> QED  BY <1>7, <1>8, <2>2, <2>3
<1>10. BridgeMap(d)' = [b \in NamesIn(BridgesOf(d)) \cup {l.name} |->
                          IF b = l.name THEN {} ELSE EntriesOf(PortsBelow(d, b))]
  BY <1>5, <1>9, BridgeMapByBridge
<1> QED
  BY <1>10, BridgeMapByBridge DEF :>, @@

\* A port that is read is one of the last bridge, and changes no other.
LEMMA BridgeMapPort ==
  ASSUME NEW l, Reads(l), NEW d, NewPort(l), LastOf(Headers) = HeaderOf(d)
  PROVE  BridgeMap(d)' =
           [b \in NamesIn(BridgesOf(d)) |->
              EntriesOf(PortsBelow(d, b)) \cup
                IF b = lines[LastOf(BridgesOf(d))].name THEN {<<Here, l.name>>} ELSE {}]
<1>1. /\ LinesInv /\ ~IsHeader(l) /\ ~NewBridge(l)
      /\ Len(lines) \in Nat /\ Here = Len(lines) + 1
  BY Positions DEF Reads, IsHeader, NewBridge, NewPort, Here
<1>2. BridgesOf(d)' = BridgesOf(d) /\ PortsOf(d)' = PortsOf(d) \cup {Here}
  BY <1>1, UnderBridgesStep
<1>3. /\ BridgesOf(d) \in SUBSET (1 .. Len(lines))
      /\ PortsOf(d) \in SUBSET (1 .. Len(lines))
  BY <1>1, BridgePositions
<1>4. \A b : Named(BridgesOf(d), b)' = Named(BridgesOf(d), b)
  BY <1>2, <1>3, NamesKept DEF Named
<1>5. NamesIn(BridgesOf(d))' = NamesIn(BridgesOf(d))
  BY <1>2, <1>3, NamesKept DEF NamesIn
<1>6. /\ \A i \in PortsOf(d) : Above(d, i)' = Above(d, i)
      /\ \A i \in {Here} : Above(d, i)' = LastOf(BridgesOf(d))
  BY <1>1, <1>3, AboveStep
<1>7. \A b \in NamesIn(BridgesOf(d)) :
        LastOf(BridgesOf(d)) = LastOf(Named(BridgesOf(d), b)) <=>
          b = lines[LastOf(BridgesOf(d))].name
  <2> TAKE b \in NamesIn(BridgesOf(d))
  <2>1. BridgesOf(d) # {}
    BY DEF NamesIn
  <2>2. lines[LastOf(Named(BridgesOf(d), b))].name = b
    BY <1>1, <1>3, LastNamed
  <2>3. b = lines[LastOf(BridgesOf(d))].name =>
          LastOf(Named(BridgesOf(d), b)) = LastOf(BridgesOf(d))
    BY <1>1, <1>3, <2>1, LastNamed
  <2> QED  BY <2>2, <2>3
<1>8. \A b \in NamesIn(BridgesOf(d)) :
        PortsBelow(d, b)' = PortsBelow(d, b) \cup
          IF b = lines[LastOf(BridgesOf(d))].name THEN {Here} ELSE {}
  BY <1>2, <1>4, <1>6, <1>7 DEF PortsBelow
<1>9. \A b \in NamesIn(BridgesOf(d)) :
        EntriesOf(PortsBelow(d, b))' = EntriesOf(PortsBelow(d, b)) \cup
          IF b = lines[LastOf(BridgesOf(d))].name THEN {<<Here, l.name>>} ELSE {}
  <2> TAKE b \in NamesIn(BridgesOf(d))
  <2>1. PortsBelow(d, b) \in SUBSET (1 .. Len(lines))
    BY <1>3 DEF PortsBelow
  <2>2. /\ {<<i, lines'[i].name>> : i \in PortsBelow(d, b)} = EntriesOf(PortsBelow(d, b))
        /\ {<<i, lines'[i].name>> : i \in PortsBelow(d, b) \cup {Here}} =
             EntriesOf(PortsBelow(d, b)) \cup {<<Here, l.name>>}
    BY <2>1, EntriesKept
  <2>3. EntriesOf(PortsBelow(d, b))' = {<<i, lines'[i].name>> : i \in PortsBelow(d, b)'}
    BY DEF EntriesOf
  <2> QED  BY <1>8, <2>2, <2>3
<1> QED
  BY <1>5, <1>9, BridgeMapByBridge

\* The current bridge is the last one under the current datapath.
BridgeInv ==
  IF command = "dpif/show" /\ cur # Garbled /\ BridgesOf(cur) # {}
    THEN curBridge = <<cur, lines[LastOf(BridgesOf(cur))].name>>
    ELSE curBridge = Nil

\* curBridge follows the bridges under the last header.
LEMMA BridgeStep ==
  ASSUME NEW l, Reads(l), CurInv, BridgeInv, command = "dpif/show",
         cur' = IF IsHeader(l) THEN l.name ELSE cur,
         curBridge' = IF IsHeader(l) THEN Nil
                      ELSE IF NewBridge(l) /\ cur # Garbled THEN <<cur, l.name>>
                      ELSE curBridge
  PROVE  BridgeInv'
<1>1. /\ LinesInv /\ command' = "dpif/show"
      /\ Len(lines) \in Nat /\ Here = Len(lines) + 1
  BY Positions DEF Reads, Here
<1>2. lines'[Here] = l /\ \A i \in DOMAIN lines : lines'[i] = lines[i]
  BY ReadLine
<1>3. CASE IsHeader(l)
  <2>1. ASSUME NEW d, d = cur'
        PROVE  BridgesOf(d)' = {}
    BY <1>3, <2>1, UnderBridgesStep
  <2> QED  BY <1>3, <2>1 DEF BridgeInv
<1>4. CASE ~IsHeader(l) /\ cur = Garbled
  BY <1>4 DEF BridgeInv
<1>5. CASE ~IsHeader(l) /\ cur # Garbled
  <2>1. LastOf(Headers) = HeaderOf(cur)
    BY <1>1, <1>5, CurProperties DEF WithHeaders
  <2>2. cur' = cur
    BY <1>5
  <2>3. ASSUME NEW d, d = cur
        PROVE  BridgesOf(d)' = BridgesOf(d) \cup IF NewBridge(l) THEN {Here} ELSE {}
    BY <1>5, <2>1, <2>3, UnderBridgesStep
  <2>4. BridgesOf(cur) \in SUBSET (1 .. Len(lines))
    BY <1>1, BridgePositions
  <2>5. CASE NewBridge(l)
    <3>1. curBridge' = <<cur, l.name>>
      BY <1>5, <2>5
    <3>2. ASSUME NEW d, d = cur
          PROVE  LastOf(BridgesOf(d))' = Here /\ BridgesOf(d)' # {}
      BY <1>1, <2>3, <2>4, <2>5, <3>2, LastOfMore
    <3> QED  BY <1>1, <1>2, <1>5, <2>2, <3>1, <3>2 DEF BridgeInv
  <2>6. CASE ~NewBridge(l)
    <3>1. curBridge' = curBridge
      BY <1>5, <2>6
    <3>2. ASSUME NEW d, d = cur
          PROVE  BridgesOf(d)' = BridgesOf(d)
      BY <2>3, <2>6, <3>2
    <3>3. BridgesOf(cur) # {} => LastOf(BridgesOf(cur)) \in DOMAIN lines
      BY <1>1, <2>4, LastOfProperties, Positions
    <3> QED  BY <1>1, <1>2, <1>5, <2>2, <3>1, <3>2, <3>3 DEF BridgeInv
  <2> QED  BY <2>5, <2>6
<1> QED  BY <1>3, <1>4, <1>5

\* Datapaths other than one whose header is read keep their lookups.
LEMMA DatapathOfStep ==
  ASSUME NEW l, Reads(l), NEW d
  PROVE  /\ IsHeader(l) /\ l.name = d =>
              DatapathOf(d)' = [lookups |-> l.sets @@ Zero, bridges |-> <<>>]
         /\ d \in NamesIn(Headers) /\ ~(IsHeader(l) /\ l.name = d) =>
              DatapathOf(d)' =
                [lookups |-> lines[HeaderOf(d)].sets @@ Zero, bridges |-> BridgeMap(d)']
<1>1. LinesInv
  BY DEF Reads
<1>2. DatapathOf(d)' =
        [lookups |-> lines'[HeaderOf(d)'].sets @@ Zero, bridges |-> BridgeMap(d)']
  BY DEF DatapathOf, Zero
<1>3. ASSUME IsHeader(l), l.name = d
      PROVE  lines'[HeaderOf(d)'] = l /\ BridgeMap(d)' = <<>>
  BY <1>3, HeaderOfStep, ReadLine, BridgeMapHeader
<1>4. ASSUME d \in NamesIn(Headers), ~(IsHeader(l) /\ l.name = d)
      PROVE  lines'[HeaderOf(d)'] = lines[HeaderOf(d)]
  <2>1. HeaderOf(d)' = HeaderOf(d)
    BY <1>4, HeaderOfStep
  <2>2. HeaderOf(d) \in DOMAIN lines
    BY <1>1, <1>4, HeaderOfProperties, HeaderPositions, Positions
  <2> QED  BY <2>1, <2>2, ReadLine
<1> QED
  BY <1>2, <1>3, <1>4

\* A header: its datapath starts again without bridges, the others stay.
LEMMA TopologyHeader ==
  ASSUME NEW l, Reads(l), IsHeader(l), out = Topology,
         out' = l.name :> [lookups |-> l.sets @@ Zero, bridges |-> <<>>] @@ out
  PROVE  out' = Topology'
<1> DEFINE new == [lookups |-> l.sets @@ Zero, bridges |-> <<>>]
<1>1. NamesIn(Headers)' = NamesIn(Headers) \cup {l.name}
  BY NamesStep
<1>2. \A d : d = l.name => DatapathOf(d)' = new
  BY DatapathOfStep
<1>3. \A d \in NamesIn(Headers) : d # l.name => DatapathOf(d)' = DatapathOf(d)
  <2> TAKE d \in NamesIn(Headers)
  <2> HAVE d # l.name
  <2>1. BridgeMap(d)' = BridgeMap(d)
    BY BridgeMapKept DEF IsHeader, NewBridge, NewPort
  <2> QED  BY <2>1, DatapathOfStep DEF DatapathOf
<1> HIDE DEF new
<1>4. Topology' = [d \in NamesIn(Headers) \cup {l.name} |->
                     IF d = l.name THEN new ELSE DatapathOf(d)]
  BY <1>1, <1>2, <1>3, TopologyByDatapath
<1>5. out' = l.name :> new @@ out
  BY DEF new
<1>6. out = [d \in NamesIn(Headers) |-> DatapathOf(d)]
  BY TopologyByDatapath
<1>7. l.name :> new @@ out = [d \in NamesIn(Headers) \cup {l.name} |->
                               IF d = l.name THEN new ELSE DatapathOf(d)]
  BY <1>6 DEF :>, @@
<1> QED
  BY <1>4, <1>5, <1>7

\* Of the datapaths only the current one changes when a line is read that is no
\* header, and of that one only the bridges.
LEMMA TopologyCurrent ==
  ASSUME NEW l, Reads(l), CurInv, command = "dpif/show", ~IsHeader(l), NEW m,
         \A d : d = cur /\ cur # Garbled => BridgeMap(d)' = m
  PROVE  Topology' = [d \in NamesIn(Headers) |->
                        [lookups |-> DatapathOf(d).lookups,
                         bridges |-> IF d = cur THEN m ELSE DatapathOf(d).bridges]]
<1>1. LinesInv
  BY DEF Reads
<1>2. NamesIn(Headers)' = NamesIn(Headers)
  BY NamesStep
<1>3. \A d \in NamesIn(Headers) :
        /\ LastOf(Headers) = HeaderOf(d) <=> d = cur
        /\ cur # Garbled
  BY <1>1, CurProperties DEF WithHeaders, NamesIn
<1>4. \A d \in NamesIn(Headers) : d # cur => BridgeMap(d)' = BridgeMap(d)
  BY <1>3, BridgeMapKept
<1>5. \A d \in NamesIn(Headers) :
        DatapathOf(d)' = [lookups |-> DatapathOf(d).lookups,
                          bridges |-> IF d = cur THEN m ELSE DatapathOf(d).bridges]
  <2> TAKE d \in NamesIn(Headers)
  <2>1. DatapathOf(d)' =
          [lookups |-> lines[HeaderOf(d)].sets @@ Zero, bridges |-> BridgeMap(d)']
    BY DatapathOfStep
  <2>2. BridgeMap(d)' = IF d = cur THEN m ELSE BridgeMap(d)
    BY <1>3, <1>4
  <2> QED  BY <2>1, <2>2 DEF DatapathOf
<1> QED
  BY <1>2, <1>5, TopologyByDatapath

\* A bridge: the current datapath has it, without ports.
LEMMA TopologyBridge ==
  ASSUME NEW l, Reads(l), CurInv, command = "dpif/show", NewBridge(l), cur # Garbled,
         out = Topology, out' = [out EXCEPT ![cur].bridges = l.name :> {} @@ @]
  PROVE  out' = Topology'
<1> DEFINE m == l.name :> {} @@ BridgeMap(cur)
<1>1. LinesInv /\ ~IsHeader(l)
  BY DEF Reads, IsHeader, NewBridge
<1>2. cur \in NamesIn(Headers) /\ LastOf(Headers) = HeaderOf(cur)
  BY <1>1, CurProperties DEF WithHeaders
<1>3. \A d : d = cur /\ cur # Garbled => BridgeMap(d)' = m
  BY <1>2, BridgeMapBridge
<1>4. DatapathOf(cur).bridges = BridgeMap(cur)
  BY DEF DatapathOf
<1>5. \A d : DatapathOf(d) = [lookups |-> DatapathOf(d).lookups,
                              bridges |-> DatapathOf(d).bridges]
  BY DEF DatapathOf
<1>6. l.name :> {} @@ DatapathOf(cur).bridges = m
  BY <1>4
<1> HIDE DEF m
<1>7. Topology' = [d \in NamesIn(Headers) |->
                     [lookups |-> DatapathOf(d).lookups,
                      bridges |-> IF d = cur THEN m ELSE DatapathOf(d).bridges]]
  BY <1>1, <1>3, TopologyCurrent
<1>8. out = [d \in NamesIn(Headers) |-> DatapathOf(d)]
  BY TopologyByDatapath
<1>9. out' = [out EXCEPT ![cur] = [@ EXCEPT !.bridges = m]]
  BY <1>2, <1>6, <1>8
<1>10. [DatapathOf(cur) EXCEPT !.bridges = m] =
         [lookups |-> DatapathOf(cur).lookups, bridges |-> m]
  BY <1>5
<1> QED
  BY <1>2, <1>5, <1>7, <1>8, <1>9, <1>10

\* A port: the current bridge has it.
LEMMA TopologyPort ==
  ASSUME NEW l, Reads(l), CurInv, BridgeInv, command = "dpif/show", NewPort(l),
         curBridge # Nil, out = Topology,
         out' = [out EXCEPT ![curBridge[1]].bridges[curBridge[2]] = @ \cup {<<Here, l.name>>}]
  PROVE  out' = Topology'
<1> DEFINE b == lines[LastOf(BridgesOf(cur))].name
           m == [BridgeMap(cur) EXCEPT ![b] = @ \cup {<<Here, l.name>>}]
<1>1. LinesInv /\ ~IsHeader(l)
  BY DEF Reads, IsHeader, NewPort
<1>2. cur # Garbled /\ curBridge = <<cur, b>>
  BY DEF BridgeInv
<1>3. cur \in NamesIn(Headers) /\ LastOf(Headers) = HeaderOf(cur)
  BY <1>1, <1>2, CurProperties DEF WithHeaders
<1>4. \A d : d = cur /\ cur # Garbled => BridgeMap(d)' = m
  <2> TAKE d
  <2> HAVE d = cur /\ cur # Garbled
  <2>1. BridgeMap(d)' =
          [a \in NamesIn(BridgesOf(d)) |->
             EntriesOf(PortsBelow(d, a)) \cup IF a = b THEN {<<Here, l.name>>} ELSE {}]
    BY <1>3, BridgeMapPort
  <2> HIDE DEF b
  <2>2. BridgeMap(cur) =
          [a \in NamesIn(BridgesOf(cur)) |-> EntriesOf(PortsBelow(cur, a))]
    BY BridgeMapByBridge
  <2>3. m = [a \in NamesIn(BridgesOf(cur)) |->
               EntriesOf(PortsBelow(cur, a)) \cup IF a = b THEN {<<Here, l.name>>} ELSE {}]
    BY <2>2
  <2> QED  BY <2>1, <2>3
<1>5. DatapathOf(cur).bridges = BridgeMap(cur)
  BY DEF DatapathOf
<1>6. \A d : DatapathOf(d) = [lookups |-> DatapathOf(d).lookups,
                              bridges |-> DatapathOf(d).bridges]
  BY DEF DatapathOf
<1>7. [DatapathOf(cur).bridges EXCEPT ![b] = @ \cup {<<Here, l.name>>}] = m
  BY <1>5
<1>8. curBridge[1] = cur /\ curBridge[2] = b
  BY <1>2
<1>9. out' = [out EXCEPT ![cur].bridges[b] = @ \cup {<<Here, l.name>>}]
  BY <1>8
<1> HIDE DEF m, b
<1>10. Topology' = [d \in NamesIn(Headers) |->
                      [lookups |-> DatapathOf(d).lookups,
                       bridges |-> IF d = cur THEN m ELSE DatapathOf(d).bridges]]
  BY <1>1, <1>4, TopologyCurrent
<1>11. out = [d \in NamesIn(Headers) |-> DatapathOf(d)]
  BY TopologyByDatapath
<1>12. out' = [out EXCEPT ![cur] = [@ EXCEPT !.bridges = m]]
  BY <1>3, <1>7, <1>9, <1>11
<1>13. [DatapathOf(cur) EXCEPT !.bridges = m] =
         [lookups |-> DatapathOf(cur).lookups, bridges |-> m]
  BY <1>6
<1> QED
  BY <1>3, <1>6, <1>10, <1>11, <1>12, <1>13

\* Lines the parser skips are lines the report does not count.
LEMMA TopologySkipped ==
  ASSUME NEW l, Reads(l), CurInv, BridgeInv, command = "dpif/show", ~IsHeader(l),
         NewBridge(l) => cur = Garbled, NewPort(l) => curBridge = Nil,
         out = Topology, out' = out
  PROVE  out' = Topology'
<1>1. LinesInv
  BY DEF Reads
<1>2. cur # Garbled => LastOf(Headers) = HeaderOf(cur)
  BY <1>1, CurProperties DEF WithHeaders
<1>3. \A d : d = cur /\ cur # Garbled => BridgeMap(d)' = BridgeMap(cur)
  <2> TAKE d
  <2> HAVE d = cur /\ cur # Garbled
  <2>1. CASE NewPort(l)
    <3>1. BridgesOf(cur) = {}
      BY <2>1 DEF BridgeInv, Nil
    <3>2. NamesIn(BridgesOf(cur)) = {}
      BY <3>1 DEF NamesIn
    <3> QED  BY <1>2, <2>1, <3>2, BridgeMapPort, BridgeMapByBridge
  <2>2. CASE ~NewPort(l)
    BY <2>2, BridgeMapKept
  <2> QED  BY <2>1, <2>2
<1>4. Topology' =
        [d \in NamesIn(Headers) |->
           [lookups |-> DatapathOf(d).lookups,
            bridges |-> IF d = cur THEN BridgeMap(cur) ELSE DatapathOf(d).bridges]]
  <2>1. \A m : (\A d : d = cur /\ cur # Garbled => BridgeMap(d)' = m) =>
          Topology' = [d \in NamesIn(Headers) |->
                         [lookups |-> DatapathOf(d).lookups,
                          bridges |-> IF d = cur THEN m ELSE DatapathOf(d).bridges]]
    BY TopologyCurrent
  <2> QED  BY <1>3, <2>1, Zenon
<1>5. \A d : [lookups |-> DatapathOf(d).lookups,
              bridges |-> IF d = cur THEN BridgeMap(cur) ELSE DatapathOf(d).bridges] =
               DatapathOf(d)
  BY DEF DatapathOf
<1> QED
  BY <1>4, <1>5, TopologyByDatapath

-----------------------------------------------------------------------------
(* The inductive invariant.                                                *)

\* Keys are not empty and values are numbers, as memory/show and coverage/show print them.
KeysInv ==
  command \in {"memory/show", "coverage/show"} =>
    \A k \in DOMAIN out : k \in Seq(Words) \ {<<>>} /\ out[k] \in Numbers

\* The positions of the parser in the report, and what it has made of the report.
ParsersInv ==
  /\ LinesInv /\ CurInv /\ BridgeInv /\ PartsInv /\ KeysInv
  /\ TopologyAsPrinted /\ StatsAsPrinted /\ NamesAsPrinted

\* One more line, within the bound.
LEMMA LinesStep ==
  ASSUME NEW l, Reads(l), Len(lines) < MaxLines
  PROVE  LinesInv'
<1>1. lines' \in Seq(Readable(command)) /\ Len(lines') = Len(lines) + 1
  BY ReadLine DEF Here
<1>2. Len(lines') <= MaxLines
  BY <1>1, Positions, MaxLinesAssumption DEF Reads
<1> QED
  BY <1>1, <1>2 DEF LinesInv, Reads

\* An empty report has an empty result.
LEMMA InitInv == Init => ParsersInv
<1> SUFFICES ASSUME Init
             PROVE  ParsersInv
  OBVIOUS
<1>1. lines = <<>> /\ out = <<>> /\ parts = <<>> /\ cur = Garbled /\ curBridge = Nil
      /\ command \in Commands
  BY DEF Init
<1>2. \A S : <<>> \in Seq(S) /\ Len(<<>>) = 0
  BY EmptySeq
<1>3. LinesInv
  BY <1>1, <1>2, MaxLinesAssumption DEF LinesInv
<1>4. DOMAIN lines = {}
  BY <1>1
<1>5. /\ \A k : Of(k) = {}
      /\ Headers = {}
  BY <1>4 DEF Of, Headers
<1>6. CurInv /\ BridgeInv
  BY <1>1, <1>5 DEF CurInv, BridgeInv
<1>7. PartsInv
  <2>1. Of("value") = {}
    BY <1>5
  <2>2. /\ parts \in Seq(Words) /\ Len(parts) = 0 /\ Len(lines) = 0
        /\ LastOf(Of("value")) = 0
    BY <1>1, <1>2, <2>1, LastOfNone
  <2> QED  BY <2>2 DEF PartsInv
<1>8. KeysInv
  BY <1>1 DEF KeysInv
<1>9. \A S : S = {} => NamesIn(S) = {}
  BY DEF NamesIn
<1>10. TopologyAsPrinted /\ StatsAsPrinted
  <2>1. Topology = <<>>
    BY <1>5, <1>9, TopologyByDatapath
  <2>2. Stats = <<>>
    BY <1>5, <1>9, StatsByDatapath
  <2> QED  BY <1>1, <2>1, <2>2 DEF TopologyAsPrinted, StatsAsPrinted
<1>11. Rows = {} /\ Keys = {}
  BY <1>5 DEF Rows, Keys
<1>12. NamesAsPrinted
  <2>1. Usage = <<>>
    BY <1>11, UsageByKey
  <2>2. {<<w>> : w \in NamesIn(Rows)} = {}
    BY <1>9, <1>11
  <2>3. Events = <<>>
    BY <2>2, EventsByRow
  <2> QED  BY <1>1, <2>1, <2>3 DEF NamesAsPrinted
<1> QED
  BY <1>3, <1>6, <1>7, <1>8, <1>10, <1>12 DEF ParsersInv

\* A line of memory/show or coverage/show.
LEMMA TokenStep ==
  ASSUME ParsersInv, NEW l,
         \/ l \in WordToken /\ MemoryWord(l)
         \/ l \in ValueToken /\ MemoryValue(l)
         \/ l \in EventLine /\ CoverageEvent(l)
  PROVE  ParsersInv'
<1>1. /\ command \in {"memory/show", "coverage/show"}
      /\ Len(lines) < MaxLines /\ UNCHANGED <<command, cur, curBridge>>
      /\ lines' = Append(lines, l)
  BY DEF MemoryWord, MemoryValue, CoverageEvent, Read
<1>2. Reads(l)
  <2>1. l \in Readable(command)
    BY DEF MemoryWord, MemoryValue, CoverageEvent, Read, Readable
  <2> QED  BY <1>1, <2>1 DEF Reads, ParsersInv
<1>3. LinesInv'
  BY <1>1, <1>2, LinesStep
<1>4. CurInv' /\ BridgeInv' /\ TopologyAsPrinted' /\ StatsAsPrinted'
  BY <1>1 DEF ParsersInv, CurInv, BridgeInv, TopologyAsPrinted, StatsAsPrinted, WithHeaders
<1>5. PartsInv /\ KeysInv /\ NamesAsPrinted
  BY DEF ParsersInv
<1>6. CASE l \in WordToken /\ MemoryWord(l)
  <2>1. command = "memory/show" /\ out' = out /\ parts' = Append(parts, l.name)
    BY <1>6 DEF MemoryWord, Read
  <2>2. PartsInv'
    BY <1>2, <1>5, <1>6, <2>1, PartsWord
  <2>3. KeysInv'
    BY <1>1, <1>5, <2>1 DEF KeysInv
  <2>4. Usage' = Usage
    BY <1>2, <1>6, UsageWord DEF WordToken
  <2>5. NamesAsPrinted'
    BY <1>1, <1>5, <2>1, <2>4 DEF NamesAsPrinted
  <2> QED  BY <1>3, <1>4, <2>2, <2>3, <2>5 DEF ParsersInv
<1>7. CASE l \in ValueToken /\ MemoryValue(l)
  <2>1. /\ command = "memory/show" /\ parts' = <<>>
        /\ out' = IF Key(l) = <<>> THEN out ELSE Key(l) :> l.n @@ out
    BY <1>7 DEF MemoryValue, Read
  <2>2. PartsInv'
    BY <1>2, <1>7, <2>1, PartsValue
  <2>3. KeysInv'
    <3>1. parts \in Seq(Words)
      BY <1>5 DEF PartsInv
    <3>2. l.name # Garbled => Append(parts, l.name) \in Seq(Words)
      BY <1>7, <3>1, AppendProperties DEF ValueToken
    <3>3. Key(l) \in Seq(Words) /\ l.n \in Numbers
      BY <1>7, <3>1, <3>2 DEF Key, ValueToken
    <3>4. \A k \in DOMAIN out : k \in Seq(Words) \ {<<>>} /\ out[k] \in Numbers
      BY <1>1, <1>5 DEF KeysInv
    <3> QED  BY <2>1, <3>3, <3>4 DEF KeysInv, :>, @@
  <2>4. NamesAsPrinted'
    <3>1. out' = Usage'
      BY <1>2, <1>5, <1>7, <2>1, UsageValue DEF NamesAsPrinted
    <3> QED  BY <1>1, <2>1, <3>1 DEF NamesAsPrinted
  <2> QED  BY <1>3, <1>4, <2>2, <2>3, <2>4 DEF ParsersInv
<1>8. CASE l \in EventLine /\ CoverageEvent(l)
  <2>1. /\ command = "coverage/show" /\ parts' = parts
        /\ out' = IF l.n = Garbled THEN out ELSE <<l.name>> :> l.n @@ out
    BY <1>8 DEF CoverageEvent, Read
  <2>2. PartsInv'
    BY <1>1, <1>5, <2>1 DEF PartsInv
  <2>3. KeysInv'
    <3>1. <<l.name>> \in Seq(Words) \ {<<>>} /\ (l.n # Garbled => l.n \in Numbers)
      BY <1>8 DEF EventLine
    <3>2. \A k \in DOMAIN out : k \in Seq(Words) \ {<<>>} /\ out[k] \in Numbers
      BY <1>1, <1>5 DEF KeysInv
    <3> QED  BY <2>1, <3>1, <3>2 DEF KeysInv, :>, @@
  <2>4. NamesAsPrinted'
    <3>1. out' = Events'
      BY <1>2, <1>5, <1>8, <2>1, EventsRow DEF NamesAsPrinted
    <3> QED  BY <1>1, <2>1, <3>1 DEF NamesAsPrinted
  <2> QED  BY <1>3, <1>4, <2>2, <2>3, <2>4 DEF ParsersInv
<1> QED  BY <1>6, <1>7, <1>8

\* A line of dpctl/show or upcall/show.
LEMMA StatsStep ==
  ASSUME ParsersInv, NEW l,
         \/ l \in HeaderLine /\ \E cmd \in {"dpctl/show", "upcall/show"} : Header(cmd, l)
         \/ l \in StatsLine(CounterSets) /\ DPCTLStats(l)
         \/ l \in StatsLine(Assignments) /\ UpcallStats(l)
  PROVE  ParsersInv'
<1>1. /\ command \in {"dpctl/show", "upcall/show"}
      /\ Len(lines) < MaxLines /\ UNCHANGED <<command, curBridge, parts>>
      /\ lines' = Append(lines, l)
  BY DEF Header, DPCTLStats, UpcallStats, Read
<1>2. Reads(l)
  <2>1. l \in Readable(command)
    BY DEF Header, DPCTLStats, UpcallStats, Read, Readable
  <2> QED  BY <1>1, <2>1 DEF Reads, ParsersInv
<1>3. LinesInv'
  BY <1>1, <1>2, LinesStep
<1>4. BridgeInv' /\ PartsInv' /\ KeysInv' /\ TopologyAsPrinted' /\ NamesAsPrinted'
  BY <1>1 DEF ParsersInv, BridgeInv, PartsInv, KeysInv, TopologyAsPrinted, NamesAsPrinted
<1>5. CurInv /\ out = Stats /\ command \in WithHeaders
  BY <1>1 DEF ParsersInv, StatsAsPrinted, WithHeaders
<1>6. CASE l \in HeaderLine /\ \E cmd \in {"dpctl/show", "upcall/show"} : Header(cmd, l)
  <2>1. out' = l.name :> Zero @@ out /\ cur' = l.name
    BY <1>6 DEF Header
  <2>2. IsHeader(l)
    BY <1>1, <1>6 DEF IsHeader, HeaderLine
  <2>3. CurInv'
    BY <1>2, <1>5, <2>1, <2>2, CurStep
  <2>4. out' = Stats'
    BY <1>1, <1>2, <1>5, <2>1, <2>2, StatsHeader
  <2> QED  BY <1>3, <1>4, <2>3, <2>4 DEF ParsersInv, StatsAsPrinted
<1>7. CASE \/ l \in StatsLine(CounterSets) /\ DPCTLStats(l)
           \/ l \in StatsLine(Assignments) /\ UpcallStats(l)
  <2>1. /\ out' = IF cur # Garbled /\ (command = "dpctl/show" => l.indented)
                    THEN [out EXCEPT ![cur] = l.sets @@ @] ELSE out
        /\ cur' = cur
    BY <1>7 DEF DPCTLStats, UpcallStats, Assign, Read
  <2>2. l.kind = "stats" /\ DOMAIN l.sets \subseteq Counters \cup Handlers
    BY <1>7, AssignmentsAssumption DEF StatsLine, CounterSets
  <2>3. ~IsHeader(l)
    BY <2>2 DEF IsHeader
  <2>4. CurInv'
    BY <1>2, <1>5, <2>1, <2>3, CurStep
  <2>5. out' = Stats'
    BY <1>1, <1>2, <1>5, <2>1, <2>2, StatsAssign
  <2> QED  BY <1>3, <1>4, <2>4, <2>5 DEF ParsersInv, StatsAsPrinted
<1> QED  BY <1>6, <1>7

\* A line of dpif/show.
LEMMA DPIFStep ==
  ASSUME ParsersInv, NEW l,
         \/ l \in DatapathLine /\ DPIFDatapath(l)
         \/ l \in BridgeLine /\ DPIFBridge(l)
         \/ l \in PortLine /\ DPIFPort(l)
  PROVE  ParsersInv'
<1>1. /\ command = "dpif/show"
      /\ Len(lines) < MaxLines /\ UNCHANGED <<command, parts>>
      /\ lines' = Append(lines, l)
  BY DEF DPIFDatapath, DPIFBridge, DPIFPort, Read
<1>2. Reads(l)
  <2>1. l \in Readable(command)
    BY DEF DPIFDatapath, DPIFBridge, DPIFPort, Read, Readable
  <2> QED  BY <1>1, <2>1 DEF Reads, ParsersInv
<1>3. LinesInv'
  BY <1>1, <1>2, LinesStep
<1>4. PartsInv' /\ KeysInv' /\ StatsAsPrinted' /\ NamesAsPrinted'
  BY <1>1 DEF ParsersInv, PartsInv, KeysInv, StatsAsPrinted, NamesAsPrinted
<1>5. CurInv /\ BridgeInv /\ out = Topology /\ command \in WithHeaders
  BY <1>1 DEF ParsersInv, TopologyAsPrinted, WithHeaders
<1>6. SUFFICES CurInv' /\ BridgeInv' /\ out' = Topology'
  BY <1>3, <1>4 DEF ParsersInv, TopologyAsPrinted
<1>7. CASE l \in DatapathLine /\ DPIFDatapath(l)
  <2>1. l.kind = "datapath" /\ ~NewBridge(l) /\ ~NewPort(l)
    BY <1>7 DEF DatapathLine, NewBridge, NewPort
  <2>2. CASE DOMAIN l.sets = {}
    <3>1. UNCHANGED <<out, cur, curBridge>> /\ ~IsHeader(l)
      BY <1>1, <1>7, <2>2 DEF DPIFDatapath, IsHeader
    <3> QED
      BY <1>1, <1>2, <1>5, <2>1, <3>1, CurStep, BridgeStep, TopologySkipped
  <2>3. CASE DOMAIN l.sets # {}
    <3>1. /\ out' = l.name :> [lookups |-> l.sets @@ Zero, bridges |-> <<>>] @@ out
          /\ cur' = l.name /\ curBridge' = Nil /\ IsHeader(l)
      BY <1>7, <2>1, <2>3 DEF DPIFDatapath, IsHeader
    <3> QED
      BY <1>1, <1>2, <1>5, <3>1, CurStep, BridgeStep, TopologyHeader
  <2> QED  BY <2>2, <2>3
<1>8. CASE l \in BridgeLine /\ DPIFBridge(l)
  <2>1. l.kind = "bridge" /\ ~IsHeader(l) /\ ~NewPort(l) /\ cur' = cur
    BY <1>8 DEF BridgeLine, DPIFBridge, IsHeader, NewPort
  <2>2. NewBridge(l) <=> l.name # Garbled
    BY <2>1 DEF NewBridge
  <2>3. CASE cur = Garbled \/ l.name = Garbled
    <3>1. UNCHANGED <<out, curBridge>>
      BY <1>8, <2>3 DEF DPIFBridge
    <3> QED
      BY <1>1, <1>2, <1>5, <2>1, <2>2, <2>3, <3>1, CurStep, BridgeStep, TopologySkipped
  <2>4. CASE cur # Garbled /\ l.name # Garbled
    <3>1. /\ out' = [out EXCEPT ![cur].bridges = l.name :> {} @@ @]
          /\ curBridge' = <<cur, l.name>>
      BY <1>8, <2>4 DEF DPIFBridge
    <3> QED
      BY <1>1, <1>2, <1>5, <2>1, <2>2, <2>4, <3>1, CurStep, BridgeStep, TopologyBridge
  <2> QED  BY <2>3, <2>4
<1>9. CASE l \in PortLine /\ DPIFPort(l)
  <2>1. l.kind = "port" /\ ~IsHeader(l) /\ ~NewBridge(l) /\ UNCHANGED <<cur, curBridge>>
    BY <1>9 DEF PortLine, DPIFPort, IsHeader, NewBridge
  <2>2. NewPort(l) <=> l.name # Garbled
    BY <2>1 DEF NewPort
  <2>3. CASE curBridge = Nil \/ l.name = Garbled
    <3>1. out' = out
      BY <1>9, <2>3 DEF DPIFPort
    <3> QED
      BY <1>1, <1>2, <1>5, <2>1, <2>2, <2>3, <3>1, CurStep, BridgeStep, TopologySkipped
  <2>4. CASE curBridge # Nil /\ l.name # Garbled
    <3>1. out' = [out EXCEPT ![curBridge[1]].bridges[curBridge[2]] =
                                 @ \cup {<<Here, l.name>>}]
      <4>1. Len(lines') = Here
        BY <1>2, ReadLine
      <4> QED  BY <1>9, <2>4, <4>1 DEF DPIFPort
    <3> QED
      BY <1>1, <1>2, <1>5, <2>1, <2>2, <2>4, <3>1, CurStep, BridgeStep, TopologyPort
  <2> QED  BY <2>3, <2>4
<1> QED  BY <1>7, <1>8, <1>9

\* Every line of every report keeps the invariant.
LEMMA StepInv == ParsersInv /\ [Next]_vars => ParsersInv'
<1> SUFFICES ASSUME ParsersInv, [Next]_vars
             PROVE  ParsersInv'
  OBVIOUS
<1>1. ASSUME NEW l \in DatapathLine, DPIFDatapath(l) PROVE ParsersInv'
  BY <1>1, DPIFStep
<1>2. ASSUME NEW l \in BridgeLine, DPIFBridge(l) PROVE ParsersInv'
  BY <1>2, DPIFStep
<1>3. ASSUME NEW l \in PortLine, DPIFPort(l) PROVE ParsersInv'
  BY <1>3, DPIFStep
<1>4. ASSUME NEW l \in HeaderLine, NEW cmd \in {"dpctl/show", "upcall/show"}, Header(cmd, l)
      PROVE  ParsersInv'
  BY <1>4, StatsStep
<1>5. ASSUME NEW l \in StatsLine(CounterSets), DPCTLStats(l) PROVE ParsersInv'
  BY <1>5, StatsStep
<1>6. ASSUME NEW l \in StatsLine(Assignments), UpcallStats(l) PROVE ParsersInv'
  BY <1>6, StatsStep
<1>7. ASSUME NEW l \in WordToken, MemoryWord(l) PROVE ParsersInv'
  BY <1>7, TokenStep
<1>8. ASSUME NEW l \in ValueToken, MemoryValue(l) PROVE ParsersInv'
  BY <1>8, TokenStep
<1>9. ASSUME NEW l \in EventLine, CoverageEvent(l) PROVE ParsersInv'
  BY <1>9, TokenStep
<1>10. CASE UNCHANGED vars
  <2>1. UNCHANGED <<Topology, Stats, Usage, Events>>
    BY <1>10 DEF vars, Topology, Stats, Usage, Events, Setting, KeyAt, PortsUnder, Under,
                 Over, Named, NamesIn, EntriesOf, Headers, BridgeHeaders, Of
  <2>2. UNCHANGED <<Headers, Of("value")>> /\ \A d : BridgesOf(d)' = BridgesOf(d)
    BY <1>10 DEF vars, BridgesOf, Under, Over, Named, Headers, BridgeHeaders, Of
  <2> QED
    BY <1>10, <2>1, <2>2
       DEF vars, ParsersInv, LinesInv, CurInv, BridgeInv, PartsInv, KeysInv,
           TopologyAsPrinted, StatsAsPrinted, NamesAsPrinted
<1> QED
  BY <1>1, <1>2, <1>3, <1>4, <1>5, <1>6, <1>7, <1>8, <1>9, <1>10 DEF Next

\* The invariant, TypeOK aside, which follows from it.
THEOREM InductiveInvariant == Spec => []ParsersInv
BY InitInv, StepInv, PTL DEF Spec

\* What the result of each parser has, by the lines it is made of.
LEMMA TopologyTyped ==
  ASSUME ParsersInv, command = "dpif/show"
  PROVE  /\ \A k \in DOMAIN out : /\ k \in Datapaths /\ DOMAIN out[k].lookups = Counters
                                  /\ DOMAIN out[k].bridges \subseteq Bridges
         /\ cur # Garbled => cur \in DOMAIN out
         /\ curBridge # Nil => /\ curBridge[1] = cur
                               /\ curBridge[2] \in DOMAIN out[cur].bridges
<1>1. /\ LinesInv /\ CurInv /\ BridgeInv /\ command \in WithHeaders
      /\ out = [d \in NamesIn(Headers) |-> DatapathOf(d)]
  BY TopologyByDatapath DEF ParsersInv, TopologyAsPrinted, WithHeaders
<1>2. \A i \in DOMAIN lines :
        /\ lines[i].kind = "datapath" => lines[i].name \in Datapaths
                                         /\ DOMAIN lines[i].sets \subseteq Counters
        /\ lines[i].kind = "bridge" => lines[i].name \in Bridges \cup {Garbled}
  <2> TAKE i \in DOMAIN lines
  <2>1. lines[i] \in DatapathLine \cup BridgeLine \cup PortLine
    BY <1>1, Positions DEF Readable
  <2> QED  BY <2>1 DEF DatapathLine, BridgeLine, PortLine, CounterSets
<1>3. ASSUME NEW d \in NamesIn(Headers)
      PROVE  /\ d \in Datapaths /\ DOMAIN out[d].lookups = Counters
             /\ DOMAIN out[d].bridges = NamesIn(BridgesOf(d))
             /\ NamesIn(BridgesOf(d)) \subseteq Bridges
  <2>1. HeaderOf(d) \in Headers /\ lines[HeaderOf(d)].name = d
    BY <1>1, HeaderOfProperties
  <2>2. HeaderOf(d) \in DOMAIN lines /\ lines[HeaderOf(d)].kind = "datapath"
    BY <2>1 DEF Headers, Of
  <2>3. d \in Datapaths /\ DOMAIN lines[HeaderOf(d)].sets \subseteq Counters
    BY <1>2, <2>1, <2>2
  <2>4. DOMAIN (lines[HeaderOf(d)].sets @@ Zero) = Counters
    BY <2>3 DEF @@, Zero
  <2>5. out[d] = [lookups |-> lines[HeaderOf(d)].sets @@ Zero, bridges |-> BridgeMap(d)]
    BY <1>1 DEF DatapathOf
  <2>6. DOMAIN BridgeMap(d) = NamesIn(BridgesOf(d))
    BY DEF BridgeMap
  <2>7. \A i \in BridgesOf(d) : i \in DOMAIN lines /\ lines[i].kind = "bridge"
                                /\ lines[i].name # Garbled
    BY DEF BridgesOf, Under, BridgeHeaders, Of
  <2>8. NamesIn(BridgesOf(d)) \subseteq Bridges
    BY <1>2, <2>7 DEF NamesIn
  <2> QED  BY <2>3, <2>4, <2>5, <2>6, <2>8
<1>4. DOMAIN out = NamesIn(Headers)
  BY <1>1
<1>5. cur # Garbled => cur \in NamesIn(Headers)
  BY <1>1, CurProperties
<1>6. ASSUME curBridge # Nil
      PROVE  curBridge[1] = cur /\ curBridge[2] \in DOMAIN out[cur].bridges
  <2>1. /\ cur # Garbled /\ BridgesOf(cur) # {}
        /\ curBridge = <<cur, lines[LastOf(BridgesOf(cur))].name>>
    BY <1>1, <1>6 DEF BridgeInv
  <2>2. LastOf(BridgesOf(cur)) \in BridgesOf(cur)
    BY <1>1, <2>1, BridgePositions, LastNamed
  <2>3. lines[LastOf(BridgesOf(cur))].name \in NamesIn(BridgesOf(cur))
    BY <2>2 DEF NamesIn
  <2> QED  BY <1>3, <1>5, <2>1, <2>3
<1> QED
  BY <1>3, <1>4, <1>5, <1>6

\* What a report of counters comes to has its type.
LEMMA StatsTyped ==
  ASSUME ParsersInv, command \in {"dpctl/show", "upcall/show"}
  PROVE  /\ \A k \in DOMAIN out :
              /\ k \in Datapaths /\ Counters \subseteq DOMAIN out[k]
              /\ DOMAIN out[k] \subseteq
                   IF command = "upcall/show" THEN Counters \cup Handlers ELSE Counters
         /\ cur # Garbled => cur \in DOMAIN out
<1>1. /\ LinesInv /\ CurInv /\ command \in WithHeaders
      /\ out = [d \in NamesIn(Headers) |-> StatsOf(d)]
  BY StatsByDatapath DEF ParsersInv, StatsAsPrinted, WithHeaders
<1>2. cur # Garbled => cur \in NamesIn(Headers)
  BY <1>1, CurProperties
<1>3. \A d \in NamesIn(Headers) : d \in Datapaths
  BY <1>1, HeaderNames DEF NamesIn
<1>4. ASSUME command = "dpctl/show", NEW d, NEW h \in Handlers
      PROVE  Setting(d, h) = 0
  <2> SUFFICES ASSUME Setting(d, h) # 0
               PROVE  FALSE
    OBVIOUS
  <2> DEFINE i == Setting(d, h)
  <2>1. i \in Settings(d, h)
    BY <1>1, SettingProperties
  <2>2. i \in DOMAIN lines /\ lines[i].kind = "stats" /\ h \in DOMAIN lines[i].sets
    BY <2>1 DEF Settings, Sets, Under, Of
  <2>3. lines[i] \in HeaderLine \cup StatsLine(CounterSets)
    BY <1>1, <1>4, <2>2, Positions DEF Readable
  <2>4. DOMAIN lines[i].sets \subseteq Counters
    BY <2>2, <2>3 DEF HeaderLine, StatsLine, CounterSets
  <2> QED  BY <2>2, <2>4, HandlersAssumption
<1>5. \A d \in NamesIn(Headers) :
        DOMAIN out[d] = Counters \cup {h \in Handlers : Setting(d, h) # 0}
  <2>1. \A d : DOMAIN StatsOf(d) = Counters \cup {h \in Handlers : Setting(d, h) # 0}
    BY DEF StatsOf
  <2> QED  BY <1>1, <2>1
<1> QED
  <2>1. DOMAIN out = NamesIn(Headers)
    BY <1>1
  <2>2. ASSUME command = "dpctl/show", NEW d
        PROVE  {h \in Handlers : Setting(d, h) # 0} = {}
    BY <1>4, <2>2
  <2> QED  BY <1>2, <1>3, <1>5, <2>1, <2>2

\* Types follow from the invariant: out holds what the report says.
LEMMA Typed == ParsersInv => TypeOK
<1> SUFFICES ASSUME ParsersInv
             PROVE  TypeOK
  OBVIOUS
<1>1. command \in Commands /\ Len(lines) <= MaxLines
  BY DEF ParsersInv, LinesInv
<1>2. CASE command = "dpif/show"
  BY <1>1, <1>2, TopologyTyped DEF TypeOK
<1>3. CASE command \in {"dpctl/show", "upcall/show"}
  <2>1. curBridge = Nil
    BY <1>3 DEF ParsersInv, BridgeInv
  <2> QED  BY <1>1, <1>3, <2>1, StatsTyped DEF TypeOK
<1>4. CASE command \in {"memory/show", "coverage/show"}
  <2>1. curBridge = Nil /\ cur = Garbled
    BY <1>4 DEF ParsersInv, BridgeInv, CurInv, WithHeaders
  <2>2. \A k \in DOMAIN out : k \in Seq(Words) \ {<<>>} /\ out[k] \in Numbers
    BY <1>4 DEF ParsersInv, KeysInv
  <2> QED  BY <1>1, <1>4, <2>1, <2>2 DEF TypeOK
<1> QED
  BY <1>1, <1>2, <1>3, <1>4 DEF Commands

-----------------------------------------------------------------------------
(* The theorems.                                                           *)

\* What the loops keep points into the result, and the result has its struct's type.
THEOREM TypeCorrect == Spec => []TypeOK
BY InductiveInvariant, Typed, PTL

\* Whatever lines dpif/show prints, in any order and among any unknown ones, each
\* bridge is under the datapath and each port under the bridge it was printed under
\* (dpif.go:76-80).
THEOREM TopologyOfReport == Spec => []TopologyAsPrinted
BY InductiveInvariant, PTL DEF ParsersInv

\* Whatever lines dpctl/show and upcall/show print, a datapath has the counters last
\* printed under its last header and no others (dpctl.go:44-78, upcall.go:28-60).
THEOREM StatsOfReport == Spec => []StatsAsPrinted
BY InductiveInvariant, PTL DEF ParsersInv

\* Whatever tokens memory/show prints, a value is stored under all the words since the
\* value before and no others; a row of coverage/show under its name
\* (memory.go:21-28, coverage.go:18-22).
THEOREM NamesOfReport == Spec => []NamesAsPrinted
BY InductiveInvariant, PTL DEF ParsersInv

=============================================================================
