------------------------------ MODULE GameMap ------------------------------
(***************************************************************************)
(* The map of a game (diplomacy/engine/map.py) and the convoy paths that   *)
(* are computed from it (utils/convoy_paths.py).                           *)
(*                                                                         *)
(* A location is a province or one coast of a province; Short[l] is the    *)
(* province of l (the code's loc[:3]).  The letter case of the map file is *)
(* data here: Lower is the set of locations whose own line is in lower     *)
(* case (a province with several coasts, where a fleet cannot stand), and  *)
(* an entry of an adjacency list has a style: "both" (upper case), "army"  *)
(* (lower case) or "fleet" (mixed case).                                   *)
(***************************************************************************)
EXTENDS Integers, FiniteSets, SequencesExt

CONSTANTS
    Locs,            \* Map.locs, in upper case
    Short,           \* [Locs -> Locs], the province of a location
    Area,            \* [Locs -> AreaTypes], Map.loc_type
    Lower,           \* locations listed in lower case
    Lists            \* [Locs -> Seq([loc, style])], Map.loc_abut

AreaTypes == {"WATER", "COAST", "PORT", "LAND", "SHUT"}
Kinds == {"-", "S", "C"}
Types == {"A", "F"}
None == "none"

ASSUME MapAssumption ==
    /\ Short \in [Locs -> Locs] /\ \A l \in Locs : Short[Short[l]] = Short[l]
    /\ Area \in [Locs -> AreaTypes] /\ Lower \subseteq Locs
    /\ DOMAIN Lists = Locs
    /\ \A l \in Locs : \A e \in ToSet(Lists[l]) : e.loc \in Locs /\ e.style \in {"both", "army", "fleet"}
    /\ None \notin Locs
    /\ \A l \in Locs : Short[l] # l => Short[l] \in Lower     \* so are all maps of maps/

OnCoast(l) == Short[l] # l
Coastal == {"COAST", "PORT"}
Wet == {"WATER", "PORT"}
----------------------------------------------------------------------------
(* Adjacency. *)

\* All locations of the province of l.
FindCoasts(l) == {m \in Locs : Short[m] = Short[l]}

\* The adjacency list; with the province added after a coast whose province
\* is not listed, if asked (incl_no_coast).
AbutList(l) == Lists[l]
AbutListNoCoast(l) ==
    LET bare == SelectSeq(Lists[l], LAMBDA e : OnCoast(e.loc))
        new(acc, e) == LET entry == [loc |-> Short[e.loc], style |-> "both"]
                       IN  IF entry \in ToSet(acc) THEN acc ELSE Append(acc, entry)
    IN  FoldLeft(new, Lists[l], bare)
Near(l) == {e.loc : e \in ToSet(AbutListNoCoast(l))}

ValidUnit(type, l, noCoastOk) ==
    IF type = "A" THEN ~OnCoast(l) /\ Area[l] \in {"LAND", "COAST", "PORT"}
    ELSE Area[l] \in {"WATER", "COAST", "PORT"} /\ (noCoastOk \/ l \notin Lower)

\* Map._abuts: the first entry of the list that names the target decides.
ComputeAbuts(type, l, kind, target) ==
    LET other == IF OnCoast(target) /\ kind = "S" THEN Short[target] ELSE target
        named == SelectSeq(Lists[l], LAMBDA e : other \in {e.loc, Short[e.loc]})
    IN  /\ ValidUnit(type, l, FALSE)
        /\ ~(type = "A" /\ OnCoast(target) /\ kind # "S")
        /\ named # <<>>
        /\ Area[other] # "SHUT"
        /\ type = "F" => /\ Area[other] # "LAND" /\ Head(named).style # "army"
                         /\ kind = "S" \/ other \notin Lower
        /\ type = "A" /\ kind # "C" => Area[other] # "WATER" /\ Head(named).style # "fleet"

AbutsCache == [q \in Types \X Locs \X Kinds \X Locs |-> ComputeAbuts(q[1], q[2], q[3], q[4])]
Abuts(type, l, kind, other) == AbutsCache[<<type, l, kind, other>>]

\* What Map.validate finds wrong with the lists: a province listed twice, an
\* adjacency that no unit can use the other way (but for those of a province
\* with coasts to the sea), a sea next to a coast but not to its province.
ListErrors ==
    UNION {{<<"twice", l, m>> : m \in {x \in Locs : Cardinality({i \in DOMAIN Lists[l] : Lists[l][i].loc = x}) > 1}} : l \in Locs}
    \cup
    {<<"one way", b[1], b[2]>> : b \in {q \in Locs \X Locs :
        /\ \E e \in ToSet(Lists[q[1]]) : e.loc = q[2]
        /\ Area[q[1]] # "SHUT" /\ Area[q[2]] # "SHUT"
        /\ \A type \in Types : ~Abuts(type, q[2], "-", q[1])
        /\ ~(q[1] \in Lower /\ Area[q[2]] = "WATER")}}
    \cup
    {<<"missing", b[1], b[2]>> : b \in {q \in Lower \X Locs :
        /\ Area[q[2]] = "WATER"
        /\ \A e \in ToSet(Lists[q[1]]) : e.loc # q[2]
        /\ \E c \in FindCoasts(q[1]) \ {q[1]} : \E e \in ToSet(Lists[c]) : e.loc = q[2]}}

\* Map.dest_with_coasts: every location one step away, with all its coasts.
DestWithCoasts(l) == UNION {FindCoasts(m) : m \in Near(l)}
----------------------------------------------------------------------------
(* Convoy paths: for a coast and a destination the sets of fleets that can *)
(* carry an army, none of them a superset of another.                      *)

Waters == {l \in Locs : Area[l] \in Wet}
MaxConvoyLength == 13

\* The queue of the breadth-first search, level by level: a set of fleets
\* and the last of them.
Chains(start) ==
    LET chain[n \in 1..Cardinality(Waters)] ==
          IF n = 1 THEN {<<{l}, l>> : l \in Near(start) \cap Waters}
          ELSE IF n > MaxConvoyLength THEN {}
          ELSE UNION {{<<c[1] \cup {l}, l>> :
                         l \in {m \in Near(c[2]) \ c[1] : Area[m] = "WATER" \/ (Area[m] = "PORT" /\ m = start)}} :
                      c \in chain[n - 1]}
    IN  UNION {chain[n] : n \in DOMAIN chain}

ConvoyPaths ==
    [start \in Locs |->
       IF Area[start] \notin Coastal \/ OnCoast(start) THEN [dest \in Locs |-> {}]
       ELSE LET chains == Chains(start)
            IN  [dest \in Locs |->
                   LET sets == IF Area[dest] \notin Coastal \/ OnCoast(dest) \/ dest = start THEN {}
                               ELSE {c[1] : c \in {x \in chains : dest \in Near(x[2])}}
                   IN  {s \in sets : \A t \in sets : t \subseteq s => t = s}]]

\* Reference: fleets of F link start and dest.
Linked(start, F, dest) ==
    LET reach[n \in Nat] == IF n = 0 THEN Near(start) \cap F
                            ELSE reach[n - 1] \cup (UNION {Near(l) : l \in reach[n - 1]} \cap F)
    IN  \E l \in reach[Cardinality(F)] : dest \in Near(l)
----------------------------------------------------------------------------
(* The order of phases.  Map.validate gives every map the same sequence;   *)
(* a phase is [year, season, type], FORMING and COMPLETED have no year.     *)

NewYear == <<"NEWYEAR", None>>
Flow == <<NewYear, <<"SPRING", "M">>, <<"SPRING", "R">>, <<"FALL", "M">>, <<"FALL", "R">>, <<"WINTER", "A">>>>
Forming == [year |-> 0, season |-> "FORMING", type |-> "-"]
Completed == [year |-> 0, season |-> "COMPLETED", type |-> "-"]
Outside(phase) == phase \in {Forming, Completed}

FlowIndex(phase) == CHOOSE i \in DOMAIN Flow : Flow[i] = <<phase.season, phase.type>>
Later(i) == (i % Len(Flow)) + 1
Earlier(i) == IF i = 1 THEN Len(Flow) ELSE i - 1
At(i, year) == [year |-> year, season |-> Flow[i][1], type |-> Flow[i][2]]

\* A slip the checks must catch: the year does not change.
FindNextInYear(phase) ==
    IF Outside(phase) THEN phase
    ELSE LET i == Later(FlowIndex(phase)) IN At(IF Flow[i] = NewYear THEN Later(i) ELSE i, phase.year)

\* Both walks pass over the one NEWYEAR step, which moves the year.
FindNextPhase(phase) ==
    IF Outside(phase) THEN phase
    ELSE LET i == Later(FlowIndex(phase))
         IN  IF Flow[i] = NewYear THEN At(Later(i), phase.year + 1) ELSE At(i, phase.year)

FindPreviousPhase(phase) ==
    IF Outside(phase) THEN phase
    ELSE LET i == Earlier(FlowIndex(phase))
         IN  IF Flow[i] = NewYear THEN At(Earlier(i), phase.year - 1) ELSE At(i, phase.year)

\* 1, 0 or -1.  A NEWYEAR step strictly between two seasons of one year
\* reverses their order.
ComparePhases(p, q) ==
    LET rank(x) == IF x = Forming THEN 1 ELSE IF x = Completed THEN 3 ELSE 2
        sign(a, b) == IF a > b THEN 1 ELSE IF a < b THEN -1 ELSE 0
        i == FlowIndex(p)
        j == FlowIndex(q)
        between(a, b) == NewYear \in {Flow[k] : k \in a + 1 .. b - 1}
    IN  IF p = q THEN 0
        ELSE IF Outside(p) \/ Outside(q) THEN sign(rank(p), rank(q))
        ELSE IF p.year # q.year THEN sign(p.year, q.year)
        ELSE IF i > j THEN (IF between(j, i) THEN -1 ELSE 1)
        ELSE IF between(i, j) THEN 1 ELSE -1
============================================================================
