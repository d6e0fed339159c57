----------------------------- MODULE ReportFocus -----------------------------
(***************************************************************************)
(* What a report puts first (processing/synthesis.py): the articles or     *)
(* cases of an agent are split, deduplicated, ranked and divided into      *)
(* material and contextual ones, the lists of the reporting brief.         *)
(***************************************************************************)
EXTENDS Impact, Sequences, FiniteSets, Functions

CONSTANTS
  Texts,      \* texts, as numbers in their alphabetical order
  EmptyText,  \* ""
  Words,      \* the words of each text that matter
  Parts,      \* what each text is split into and stripped to
  Short,      \* texts of fewer than eight characters
  MaxItems    \* bound on the items of an agent

ASSUME TextAssumption ==
  /\ Texts \subseteq Nat /\ EmptyText \in Texts /\ Short \subseteq Texts
  /\ Parts \in [Texts -> Seq(Texts)] /\ Parts[EmptyText] = <<EmptyText>>
  /\ EmptyText \in Short /\ Words[EmptyText] = {}
  /\ \A t \in Texts :
       /\ Words[t] \subseteq STRING
       /\ Range(Parts[t]) # {t} => UNION {Words[p] : p \in Range(Parts[t])}
                                     \subseteq Words[t]
ASSUME ItemsAssumption == MaxItems \in Nat

VARIABLES
  domain,    \* "news" or "litigation"
  items,     \* the articles or cases the agent returned
  dossier    \* what synthesize makes of them

vars == <<domain, items, dossier>>

-----------------------------------------------------------------------------
(* The phrases of each weight, from 1 on, a blank written as _.            *)
NegativeSignals == <<
  <<>>, <<>>,
  <<"delay", "decline", "drop", "fall", "warning", "warn", "pressure">>,
  <<"downgrade", "layoff", "layoffs", "miss", "misses", "settlement",
    "scrutiny">>,
  <<"recall", "penalty", "fine", "breach", "shutdown", "sues", "sued",
    "injunction">>,
  <<"lawsuit", "litigation", "probe", "investigation", "fraud", "antitrust",
    "charged", "charges">>,
  <<"bankruptcy", "default">> >>

ImportantSignals == <<
  <<>>, <<>>,
  <<"guidance", "ceo", "cfo">>,
  <<"resignation", "suspension", "court">>,
  <<"sec", "doj", "fda", "epa", "ftc", "regulator", "regulatory",
    "restatement", "sanction">>,
  <<"class_action">> >>

PositiveSignals == <<
  <<>>,
  <<"growth", "expansion", "launch", "opens", "opening", "partnership",
    "contract", "profit", "upgrade", "record", "strong_demand", "raises">>,
  <<"approval", "beats", "beat">> >>

(* A phrase of weight w is worth w points, <<phrase, 1>> to <<phrase, w>>. *)
Points(signals) ==
  UNION {Range(signals[w]) \X (1 .. w) : w \in DOMAIN signals}

(* Signals are looked for as substrings: some words contain two of them,   *)
(* and some harmless ones contain one.                                     *)
Inside ==
  {<<"layoff", "layoffs">>, <<"miss", "misses">>, <<"warn", "warning">>,
   <<"regulator", "regulatory">>, <<"beat", "beats">>, <<"sues", "issues">>,
   <<"fine", "refines">>}

Score(t, signals) ==
  Cardinality({p \in Points(signals) :
                 \E w \in Words[t] : p[1] = w \/ <<p[1], w>> \in Inside})

Item ==
  [t \in Texts |->
    [text |-> t, negative |-> Score(t, NegativeSignals),
     important |-> Score(t, ImportantSignals),
     positive |-> Score(t, PositiveSignals)]]

-----------------------------------------------------------------------------
(* The elements of a finite set in the order of a relation: n - 1 of them  *)
(* come before the n-th.                                                   *)
InOrder(S, R) ==
  [n \in 1 .. Cardinality(S) |->
     CHOOSE x \in S : Cardinality({y \in S : <<y, x>> \in R}) = n - 1]

Ascending(S) == {p \in S \X S : p[1] < p[2]}

Lexicographic(S) ==
  {p \in S \X S : \/ p[1][1] < p[2][1]
                  \/ p[1][1] = p[2][1] /\ p[1][2] < p[2][2]}

(* What seq has at the given places.                                       *)
Pick(seq, places) ==
  LET order == InOrder(places, Ascending(places))
  IN  [n \in DOMAIN order |-> seq[order[n]]]

LongParts(t) == {i \in DOMAIN Parts[t] : Parts[t][i] \notin Short}

(* Mutant of NormalizeTextItem: no fallback for a text of short parts.     *)
NormalizeTextItemStrictly(t) == Pick(Parts[t], LongParts(t))

NormalizeTextItem(t) ==
  IF LongParts(t) = {} THEN <<t>> ELSE Pick(Parts[t], LongParts(t))

(* The places <<i, j>> of the j-th text of the i-th item, in their order.  *)
Places(seq) ==
  UNION {{i} \X DOMAIN NormalizeTextItem(seq[i]) : i \in DOMAIN seq}

(* What all items are split into, each text at its first place only.       *)
NormalizeTextList(seq) ==
  LET of == [i \in DOMAIN seq |-> NormalizeTextItem(seq[i])]
      first == {p \in Places(seq) :
                  \A q \in Places(seq) : <<q, p>> \in Lexicographic(Places(seq))
                    => of[q[1]][q[2]] # of[p[1]][p[2]]}
      order == InOrder(first, Lexicographic(first))
  IN  [n \in DOMAIN order |-> of[order[n][1]][order[n][2]]]

(* A stable sort by the key of Before; empty texts are skipped.            *)
RankTextItems(texts) ==
  LET of == [k \in DOMAIN texts |-> Item[texts[k]]]
      kept == {k \in DOMAIN texts : texts[k] # EmptyText}
      precedes ==
        {p \in kept \X kept :
           \/ Before(of[p[1]], of[p[2]], domain)
           \/ ~ Before(of[p[2]], of[p[1]], domain) /\ p[1] < p[2]}
      order == InOrder(kept, precedes)
  IN  [n \in DOMAIN order |-> texts[order[n]]]

Dossier(seq) ==
  LET texts == NormalizeTextList(seq)
      ranked == RankTextItems(texts)
      material == {k \in DOMAIN ranked : Material(Item[ranked[k]], domain)}
  IN  [count |-> Len(texts),
       ranked |-> ranked,
       material |-> Pick(ranked, material),
       contextual |-> Pick(ranked, DOMAIN ranked \ material)]

NoDossier == [count |-> 0, ranked |-> <<>>, material |-> <<>>,
              contextual |-> <<>>]

Init ==
  /\ domain \in Domains
  /\ items \in UNION {[1 .. n -> Texts] : n \in 0 .. MaxItems}
  /\ dossier = NoDossier

Synthesize ==
  /\ dossier' = Dossier(items)
  /\ UNCHANGED <<domain, items>>

Next == Synthesize

Spec == Init /\ [][Next]_vars

-----------------------------------------------------------------------------
Synthesized == dossier # NoDossier

(* The order in which an agent found its items has no influence on what    *)
(* the brief puts first: the ranking is the same for every permutation.    *)
OrderOfItemsIsIrrelevant ==
  Synthesized =>
    \A p \in Bijection(DOMAIN items, DOMAIN items) :
      Dossier([k \in DOMAIN items |-> items[p[k]]]) = dossier

(* What a text says except in short parts, unless it is nothing but short. *)
Says(t) ==
  LET long == Range(Parts[t]) \ Short
  IN  IF long = {} THEN Words[t] ELSE UNION {Words[p] : p \in long}

(* Splitting, deduplicating and dividing repeat nothing and lose no signal *)
(* but those of short parts: no text is listed twice, in one list or in    *)
(* both, and together the lists say what the items say.                    *)
EverySignalIsListedOnce ==
  Synthesized =>
    LET listed == dossier.material \o dossier.contextual
    IN  /\ IsInjective(listed)
        /\ UNION {Words[t] : t \in Range(listed)}
             = UNION {Says(t) : t \in Range(items)}

(* News with an adverse signal comes before all other news, however much   *)
(* good news either of them contains, and material news leads the list.    *)
AdverseNewsComesFirst ==
  Synthesized /\ domain = "news" =>
    /\ dossier.ranked = dossier.material \o dossier.contextual
    /\ \A j, k \in DOMAIN dossier.ranked :
         j < k /\ Adverse(Item[dossier.ranked[k]])
           => Adverse(Item[dossier.ranked[j]])

(* More adverse signals never move a text down, in either domain and       *)
(* whatever else it says: a text comes before one that has only part of    *)
(* its signals and less adverse weight.                                    *)
AdverseSignalNeverDemotes ==
  Synthesized =>
    \A j, k \in DOMAIN dossier.ranked :
      LET t == dossier.ranked[j]  u == dossier.ranked[k]
      IN  /\ Words[t] \subseteq Words[u]
          /\ Item[u].negative + Item[u].important
               > Item[t].negative + Item[t].important
          => k < j

=============================================================================
