-------------------------------- MODULE Band --------------------------------
(***************************************************************************)
(* The carriers of a spot, shared between categories of terminals, and     *)
(* what a command of the SVNO does to them (DvbChannel::allocateBand and   *)
(* releaseBand, TerminalCategory).  Module NccInterface applies commands.  *)
(*                                                                         *)
(* A category has groups of carriers, [rate, number], and a list of how    *)
(* many carriers it has of each symbol rate, kept beside them.  Carriers   *)
(* of other accesses, which initBand deletes, ratios and VCM are left out. *)
(***************************************************************************)
EXTENDS Integers, Sequences, FiniteSets, FiniteSetsExt, Functions

CONSTANTS Categories, Sno,   \* Sno: the category the others get carriers from
          Carriers,          \* [category -> sequence of [rate, ratio]], of the configuration
          Bandwidth,         \* bandwidth_khz / (1 + roll_off)
          SymNum, SymDen     \* [category -> ...]: symbols for a kbit with its best FMT

Rates == UNION {{Carriers[c][i].rate : i \in DOMAIN Carriers[c]} : c \in Categories}

ASSUME BandAssumption ==
  /\ Sno \in Categories /\ IsFiniteSet(Categories)
  /\ Bandwidth \in Nat \ {0} /\ {SymNum, SymDen} \subseteq [Categories -> Nat \ {0}]
  /\ \A c \in Categories : /\ Carriers[c] # << >>
                           /\ Carriers[c] \in Seq([rate : Nat \ {0}, ratio : Nat \ {0}])

Least(a, b) == IF a < b THEN a ELSE b
Most(a, b) == IF a > b THEN a ELSE b

\* Descriptors are given, and maps are walked, from the lowest or the highest.
Nth(S, n) == CHOOSE x \in S : Cardinality({y \in S : y < x}) = n - 1
Ascending(S) == [i \in 1 .. Cardinality(S) |-> Nth(S, i)]
Descending(S) == [i \in 1 .. Cardinality(S) |-> Nth(S, Cardinality(S) + 1 - i)]

-----------------------------------------------------------------------------
(* initBand: numbers of carriers from the ratios of the configuration      *)

TotalRatio(c) == SumFunction([i \in DOMAIN Carriers[c] |-> Carriers[c][i].ratio])
WeightedRatio(c) == SumFunction([i \in DOMAIN Carriers[c] |-> Carriers[c][i].ratio * Carriers[c][i].rate])
WeightedSum == SumFunction([c \in Categories |-> WeightedRatio(c)])

\* computeBandplan, rounded to the nearest, and no less than the groups there are.
CarriersNumber(c) ==
  Most((2 * TotalRatio(c) * Bandwidth + WeightedSum) \div (2 * WeightedSum), Len(Carriers[c]))

\* updateCarriersGroups
Groups(c) ==
  [i \in DOMAIN Carriers[c] |->
     [rate |-> Carriers[c][i].rate,
      number |-> Most((CarriersNumber(c) * Carriers[c][i].ratio) \div TotalRatio(c), 1)]]

Carried(groups, r) == [i \in DOMAIN groups |-> IF groups[i].rate = r THEN groups[i].number ELSE 0]
NumberOf(groups, r) == SumFunction(Carried(groups, r))

InitBand ==
  [c \in Categories |->
     [groups |-> Groups(c),
      list |-> [r \in {g.rate : g \in Range(Groups(c))} |-> NumberOf(Groups(c), r)]]]

-----------------------------------------------------------------------------
(* carriersTransferCalculation: carriers of cat for rate, from the list.   *)

TotalSymbolRate(cat) ==
  SumFunction([i \in DOMAIN cat.groups |-> cat.groups[i].rate * cat.groups[i].number])

\* Smaller carriers and smaller, each as often as it fits.  spare, carriers_ite2,
\* is where one is taken from when that does not do; 0 while it has no value.
\* The count it is compared with is the one just decreased.
Fitted(a, r) ==
  LET n == Least(a.rate \div r, a.list[r])
  IN IF a.rate <= 0 THEN a
     ELSE IF a.rate < r THEN [a EXCEPT !.spare = r]
     ELSE [rate |-> a.rate - n * r,
           list |-> [a.list EXCEPT ![r] = @ - n],
           carriers |-> [x \in DOMAIN a.carriers \cup {r} |-> IF x = r THEN n ELSE a.carriers[x]],
           spare |-> IF n # a.list[r] - n THEN r ELSE a.spare]

Fits(list, rate) ==
  LET sizes == Descending(DOMAIN list)
      fits[i \in 0 .. Len(sizes)] ==
        IF i = 0 THEN [rate |-> rate, list |-> list, carriers |-> << >>, spare |-> 0]
        ELSE Fitted(fits[i - 1], sizes[i])
  IN fits[Len(sizes)]

\* One more of the spare carriers, instead of the smaller ones, whose rate is
\* given back as the number that is left of them.
WithSpare(a) ==
  LET q == a.spare
      wasted == {r \in DOMAIN a.carriers : r < q}
      kept == {r \in DOMAIN a.carriers : r > q}
  IN [rate |-> a.rate - q + SumFunction([r \in wasted |-> r * a.list[r]]),
      carriers |-> [r \in kept \cup {q} |->
                      IF r \in kept THEN a.carriers[r]
                      ELSE IF q \in DOMAIN a.carriers THEN a.carriers[q] + 1 ELSE 1]]

\* An iterator without value, or past the end, is read.
Undefined(a) == a.rate > 0 /\ (a.spare = 0 \/ WithSpare(a).rate > 0)

Calculation(a) == IF a.rate > 0 THEN WithSpare(a) ELSE [rate |-> a.rate, carriers |-> a.carriers]

\* What is left for the category that releases it stays there: less one carrier.
\* A slip: the surplus goes too.
WithSurplus(c) == c.carriers
WithoutSurplus(c) ==
  IF c.rate < 0 THEN [c.carriers EXCEPT ![Min(DOMAIN c.carriers)] = @ - 1] ELSE c.carriers

-----------------------------------------------------------------------------
(* carriersTransfer                                                        *)

\* What a command may do is a set of outcomes.
Outcome(band, done) == [band |-> band, done |-> done, undefined |-> FALSE]
Refused(band) == {Outcome(band, FALSE)}

\* deallocateCarriers: n carriers of rate r, from the groups in their order, or
\* what there is of them.  The list does not change.
Taken(groups, i, n) ==
  LET before == SumFunctionOnSet(Carried(groups, groups[i].rate), 1 .. i - 1)
  IN Least(groups[i].number, Most(n - before, 0))

DeallocateCarriers(groups, rates, carriers) ==
  [i \in DOMAIN groups |->
     LET r == groups[i].rate
     IN IF r \in rates THEN [groups[i] EXCEPT !.number = @ - Taken(groups, i, carriers[r])] ELSE groups[i]]

\* addCarriersGroup: more carriers in the first group of their rate, or a group of
\* their own.  The list does not change when there is a group.
\* A slip: the number of the group is replaced.
Replaced(number, n) == n
Added(number, n) == number + n

AddCarriers(cat, rates, carriers) ==
  LET First(r) == Min({i \in DOMAIN cat.groups : cat.groups[i].rate = r})
      has == {g.rate : g \in Range(cat.groups)}
      new == Ascending(rates \ has)
  IN [groups |-> [i \in DOMAIN cat.groups |->
                    LET r == cat.groups[i].rate
                    IN IF r \in rates /\ i = First(r)
                         THEN [cat.groups[i] EXCEPT !.number = Added(@, carriers[r])]
                         ELSE cat.groups[i]]
                 \o [i \in DOMAIN new |-> [rate |-> new[i], number |-> carriers[new[i]]]],
      list |-> [r \in DOMAIN cat.list \cup rates |->
                  IF r \in rates \ has
                    THEN carriers[r] + (IF r \in DOMAIN cat.list THEN cat.list[r] ELSE 0)
                    ELSE cat.list[r]]]

\* Rate after rate, the smallest first, until one has less carriers than are to be
\* taken: what was taken of these is then in no category.
CarriersTransfer(band, from, to, carriers) ==
  LET groups == band[from].groups
      lacking == {r \in DOMAIN carriers : carriers[r] > NumberOf(groups, r)}
      moved == {r \in DOMAIN carriers : carriers[r] > 0 /\ \A l \in lacking : r < l}
      taken == moved \cup (IF lacking = {} THEN {} ELSE {Min(lacking)})
      less == [band EXCEPT ![from].groups = DeallocateCarriers(groups, taken, carriers)]
  IN Outcome([less EXCEPT ![to] = AddCarriers(@, moved, carriers)], lacking = {})

KbitsToSym(cat, kb) == (kb * SymNum[cat] + SymDen[cat] - 1) \div SymDen[cat]

\* carriers is looked at only if the calculation has a value.
Transfer(band, from, to, calculation, carriers) ==
  IF Undefined(calculation) THEN [band |-> band, done |-> FALSE, undefined |-> TRUE]
  ELSE CarriersTransfer(band, from, to, carriers)

AllocateBand(band, cat, kbps) ==
  LET needed == KbitsToSym(cat, kbps) - TotalSymbolRate(band[cat])
  IN IF needed <= 0 \/ TotalSymbolRate(band[Sno]) < needed THEN Refused(band)
     ELSE {Transfer(band, Sno, cat, a, Calculation(a).carriers) : a \in {Fits(band[Sno].list, needed)}}

ReleaseBand(band, cat, kbps) ==
  LET unneeded == TotalSymbolRate(band[cat]) - KbitsToSym(cat, kbps)
  IN IF unneeded <= 0 THEN Refused(band)
     ELSE {Transfer(band, cat, Sno, a, WithoutSurplus(Calculation(a))) :
             a \in {Fits(band[cat].list, unneeded)}}

\* SpotDownward::applySvnoCommand
ApplySvnoCommand(band, cmd) ==
  IF cmd.cat \notin Categories THEN Refused(band)
  ELSE IF cmd.type = "allocation" THEN AllocateBand(band, cmd.cat, cmd.kbps)
  ELSE ReleaseBand(band, cmd.cat, cmd.kbps)
=============================================================================
