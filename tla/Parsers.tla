------------------------------ MODULE Parsers ------------------------------
(***************************************************************************)
(* internal/unixctl's parsers of what ovs-vswitchd prints for dpif/show,   *)
(* dpctl/show, upcall/show, memory/show and coverage/show: loops over the  *)
(* lines (or tokens) of a report that remember the datapath and the bridge *)
(* they are under, or the start of a key, and skip what they do not know.  *)
(*                                                                         *)
(* A line is what the code makes of it: where it is indented and what of   *)
(* it parses.  Counters that parse come as a function of their names;      *)
(* Garbled is a name, or a value, that does not parse.  Any sequence of    *)
(* lines is a report, also those no version of OVS prints.                 *)
(***************************************************************************)
EXTENDS Naturals, Sequences, FiniteSetsExt

CONSTANTS Datapaths, Bridges, Ports,  \* names
          Counters,     \* counters of a datapath, fields that start at 0
          Handlers,     \* handler threads, entries of the map HandlerKeys
          Assignments,  \* what lines of counters may hold: functions from some
                        \* counters or handlers to numbers
          Words,        \* words of resource and event names
          Garbled,      \* what does not parse
          MaxLines      \* bound: lines of a report

Numbers == {1, 2}

ASSUME AssignmentsAssumption ==
  \A a \in Assignments : /\ DOMAIN a \subseteq Counters \cup Handlers
                         /\ \A c \in DOMAIN a : a[c] \in Numbers
ASSUME HandlersAssumption == Handlers \cap Counters = {}
ASSUME GarbledAssumption ==
  Garbled \notin Datapaths \cup Bridges \cup Ports \cup Words
ASSUME MaxLinesAssumption == MaxLines \in Nat

VARIABLES command,    \* the report
          lines,      \* history: its lines up to here
          out,        \* the result, by datapath, resource or event
          cur,        \* curDP, cur; Garbled: nil
          curBridge,  \* <<datapath, bridge>>; nil: Nil
          parts       \* words of the key that has begun

vars == <<command, lines, out, cur, curBridge, parts>>

Nil == <<>>

\* Maps, where the left one prevails.  (Those of module TLC are opaque to the prover.)
k :> v == [x \in {k} |-> v]
f @@ g == [x \in DOMAIN f \cup DOMAIN g |-> IF x \in DOMAIN f THEN f[x] ELSE g[x]]

Commands == {"dpif/show", "dpctl/show", "upcall/show", "memory/show",
             "coverage/show"}

\* The loop is at a line of the report of cmd.
Read(cmd, line) ==
  /\ command = cmd /\ Len(lines) < MaxLines
  /\ lines' = Append(lines, line)
  /\ UNCHANGED command

Init ==
  /\ command \in Commands
  /\ lines = <<>> /\ out = <<>> /\ parts = <<>>
  /\ cur = Garbled /\ curBridge = Nil

Zero == [c \in Counters |-> 0]
CounterSets == {a \in Assignments : DOMAIN a \subseteq Counters}

-----------------------------------------------------------------------------
(* ParseDPIF.                                                              *)

DatapathLine == [kind : {"datapath"}, name : Datapaths, sets : CounterSets]
BridgeLine == [kind : {"bridge"}, name : Bridges \cup {Garbled}]
PortLine == [kind : {"port"}, name : Ports \cup {Garbled}]

\* Seeded fault: the bridge of the datapath before stays current.
DPIFDatapathKeepsBridge(l) ==
  /\ Read("dpif/show", l)
  /\ IF DOMAIN l.sets = {} THEN UNCHANGED <<out, cur>>
     ELSE /\ out' = l.name :> [lookups |-> l.sets @@ Zero, bridges |-> <<>>] @@ out
          /\ cur' = l.name
  /\ UNCHANGED <<curBridge, parts>>

\* Column 0: a datapath, if at least one of its counters parses.
DPIFDatapath(l) ==
  /\ Read("dpif/show", l)
  /\ IF DOMAIN l.sets = {} THEN UNCHANGED <<out, cur, curBridge>>
     ELSE /\ out' = l.name :> [lookups |-> l.sets @@ Zero, bridges |-> <<>>] @@ out
          /\ cur' = l.name /\ curBridge' = Nil
  /\ UNCHANGED parts

\* Seeded fault: the map of bridges is made anew for every bridge.
DPIFBridgeMapAnew(l) ==
  /\ Read("dpif/show", l)
  /\ IF cur = Garbled \/ l.name = Garbled THEN UNCHANGED <<out, curBridge>>
     ELSE /\ out' = [out EXCEPT ![cur].bridges = l.name :> {}]
          /\ curBridge' = <<cur, l.name>>
  /\ UNCHANGED <<cur, parts>>

\* Two spaces: a bridge of the current datapath, if it ends in a colon.
DPIFBridge(l) ==
  /\ Read("dpif/show", l)
  /\ IF cur = Garbled \/ l.name = Garbled THEN UNCHANGED <<out, curBridge>>
     ELSE /\ out' = [out EXCEPT ![cur].bridges = l.name :> {} @@ @]
          /\ curBridge' = <<cur, l.name>>
  /\ UNCHANGED <<cur, parts>>

\* Four spaces: a port of the current bridge, if it matches portLineRE.  It is
\* appended: what the slice holds is known by the lines it comes from.
DPIFPort(l) ==
  /\ Read("dpif/show", l)
  /\ IF curBridge = Nil \/ l.name = Garbled THEN UNCHANGED out
     ELSE out' = [out EXCEPT ![curBridge[1]].bridges[curBridge[2]] =
                                @ \cup {<<Len(lines'), l.name>>}]
  /\ UNCHANGED <<cur, curBridge, parts>>

-----------------------------------------------------------------------------
(* ParseDPCTL and ParseUpcall.                                             *)

HeaderLine == [kind : {"datapath"}, name : Datapaths]

\* Lines that are no header: indented, or at column 0 without a colon.
StatsLine(A) == [kind : {"stats"}, indented : BOOLEAN, sets : A]

\* Seeded fault: a datapath that has come before is added to.
HeaderReused(cmd, l) ==
  /\ Read(cmd, l)
  /\ out' = out @@ l.name :> Zero
  /\ cur' = l.name
  /\ UNCHANGED <<curBridge, parts>>

\* Column 0 and a colon at the end: a datapath with its counters at 0.
Header(cmd, l) ==
  /\ Read(cmd, l)
  /\ out' = l.name :> Zero @@ out
  /\ cur' = l.name
  /\ UNCHANGED <<curBridge, parts>>

Assign(l) == out' = [out EXCEPT ![cur] = l.sets @@ @]

\* dpctl/show: what is not indented and no header is skipped.
DPCTLStats(l) ==
  /\ Read("dpctl/show", l)
  /\ IF l.indented /\ cur # Garbled THEN Assign(l) ELSE UNCHANGED out
  /\ UNCHANGED <<cur, curBridge, parts>>

\* upcall/show: whatever is no header may be a line of counters.
UpcallStats(l) ==
  /\ Read("upcall/show", l)
  /\ IF cur # Garbled THEN Assign(l) ELSE UNCHANGED out
  /\ UNCHANGED <<cur, curBridge, parts>>

-----------------------------------------------------------------------------
(* ParseMemory and ParseCoverage.                                          *)

WordToken == [kind : {"word"}, name : Words]
ValueToken == [kind : {"value"}, name : Words \cup {Garbled}, n : Numbers]
EventLine == [kind : {"event"}, name : Words, n : Numbers \cup {Garbled}]

\* A token without a colon, or whose value does not parse, is a word of a key.
MemoryWord(l) ==
  /\ Read("memory/show", l)
  /\ parts' = Append(parts, l.name)
  /\ UNCHANGED <<out, cur, curBridge>>

Key(l) == IF l.name = Garbled THEN parts ELSE Append(parts, l.name)

\* Seeded fault: the words of a key stay for the next one.
MemoryValueKeepsParts(l) ==
  /\ Read("memory/show", l)
  /\ out' = IF Key(l) = <<>> THEN out ELSE Key(l) :> l.n @@ out
  /\ parts' = Key(l)
  /\ UNCHANGED <<cur, curBridge>>

\* name:int, or :int, closes the key.
MemoryValue(l) ==
  /\ Read("memory/show", l)
  /\ out' = IF Key(l) = <<>> THEN out ELSE Key(l) :> l.n @@ out
  /\ parts' = <<>>
  /\ UNCHANGED <<cur, curBridge>>

\* A row with "total:", a name before it and a number behind it.
CoverageEvent(l) ==
  /\ Read("coverage/show", l)
  /\ out' = IF l.n = Garbled THEN out ELSE <<l.name>> :> l.n @@ out
  /\ UNCHANGED <<cur, curBridge, parts>>

Next ==
  \/ \E l \in DatapathLine : DPIFDatapath(l)
  \/ \E l \in BridgeLine : DPIFBridge(l)
  \/ \E l \in PortLine : DPIFPort(l)
  \/ \E l \in HeaderLine, cmd \in {"dpctl/show", "upcall/show"} : Header(cmd, l)
  \/ \E l \in StatsLine(CounterSets) : DPCTLStats(l)
  \/ \E l \in StatsLine(Assignments) : UpcallStats(l)
  \/ \E l \in WordToken : MemoryWord(l)
  \/ \E l \in ValueToken : MemoryValue(l)
  \/ \E l \in EventLine : CoverageEvent(l)

Spec == Init /\ [][Next]_vars

-----------------------------------------------------------------------------
(* What a report says: line i belongs to the last header before it.        *)

Of(kind) == {i \in DOMAIN lines : lines[i].kind = kind}
LastOf(S) == Max({0} \cup S)
Named(S, name) == {i \in S : lines[i].name = name}
NamesIn(S) == {lines[i].name : i \in S}
EntriesOf(S) == {<<i, lines[i].name>> : i \in S}

\* Headers of datapaths: those whose counters do not parse are as if absent.
Headers ==
  {i \in Of("datapath") : command = "dpif/show" => DOMAIN lines[i].sets # {}}

Over(i) == LastOf({h \in Headers : h < i})

\* The lines S under the last header of d.
Under(S, d) == {i \in S : Over(i) = LastOf(Named(Headers, d))}

BridgeHeaders == {i \in Of("bridge") : lines[i].name # Garbled}

PortsUnder(d, b) ==
  LET first == LastOf(Named(Under(BridgeHeaders, d), b))
      ports == {i \in Of("port") : lines[i].name # Garbled}
  IN  {i \in Under(ports, d) :
         LastOf({j \in Under(BridgeHeaders, d) : j < i}) = first}

Topology ==
  [d \in NamesIn(Headers) |->
     [lookups |-> lines[LastOf(Named(Headers, d))].sets @@ Zero,
      bridges |-> [b \in NamesIn(Under(BridgeHeaders, d)) |->
                     EntriesOf(PortsUnder(d, b))]]]

\* The last line under d that sets c.
Setting(d, c) ==
  LastOf({i \in Under(Of("stats"), d) :
            /\ c \in DOMAIN lines[i].sets
            /\ command = "dpctl/show" => lines[i].indented})

Stats ==
  [d \in NamesIn(Headers) |->
     [c \in Counters \cup {h \in Handlers : Setting(d, h) # 0} |->
        IF Setting(d, c) = 0 THEN 0 ELSE lines[Setting(d, c)].sets[c]]]

\* The words between the value before i and i, and the word of i itself.
KeyAt(i) ==
  LET before == LastOf({j \in Of("value") : j < i})
      own == IF lines[i].name = Garbled THEN <<>> ELSE <<lines[i].name>>
  IN  [k \in 1 .. i - before - 1 |-> lines[before + k].name] \o own

Usage ==
  LET keys == {KeyAt(i) : i \in Of("value")} \ {<<>>}
  IN  [k \in keys |-> lines[LastOf({i \in Of("value") : KeyAt(i) = k})].n]

Events ==
  LET rows == {i \in Of("event") : lines[i].n # Garbled}
  IN  [k \in {<<w>> : w \in NamesIn(rows)} |->
         lines[LastOf(Named(rows, k[1]))].n]

-----------------------------------------------------------------------------
(* Properties.                                                             *)

\* The result has the type of its struct, and the pointers the loop keeps point
\* into it.
TypeOK ==
  /\ command \in Commands /\ Len(lines) <= MaxLines
  /\ cur # Garbled => cur \in DOMAIN out
  /\ curBridge # Nil => /\ curBridge[1] = cur
                        /\ curBridge[2] \in DOMAIN out[cur].bridges
  /\ \A k \in DOMAIN out :
       CASE command = "dpif/show" ->
              /\ k \in Datapaths /\ DOMAIN out[k].lookups = Counters
              /\ DOMAIN out[k].bridges \subseteq Bridges
         [] command \in {"dpctl/show", "upcall/show"} ->
              /\ k \in Datapaths /\ Counters \subseteq DOMAIN out[k]
              /\ DOMAIN out[k] \subseteq
                   IF command = "upcall/show" THEN Counters \cup Handlers ELSE Counters
         [] OTHER -> k \in Seq(Words) \ {<<>>} /\ out[k] \in Numbers

\* Every bridge of dpif/show is under the datapath, and every port under the
\* bridge and datapath, it was printed under, and nothing is left over from an
\* earlier header, whatever unknown lines stand in between (dpif.go:76-80).
TopologyAsPrinted == command = "dpif/show" => out = Topology

\* The counters of dpctl/show and upcall/show are those last printed under the
\* datapath's last header; unknown lines change nothing (dpctl.go:52-54, 67;
\* upcall.go:40-42).
StatsAsPrinted ==
  command \in {"dpctl/show", "upcall/show"} => out = Stats

\* A resource of memory/show is named by all the words since the value before
\* it and no others, an event of coverage/show by its row (memory.go:21-28,
\* coverage.go:18-22).
NamesAsPrinted ==
  /\ command = "memory/show" => out = Usage
  /\ command = "coverage/show" => out = Events
=============================================================================
