------------------------------- MODULE Impact -------------------------------
(***************************************************************************)
(* How important a news article or a court case is (processing/impact.py), *)
(* given the weights of the signals its text contains.  An item has the    *)
(* scores of its negative, important and positive signals and its text,    *)
(* which here is only its place in the alphabetical order.                 *)
(***************************************************************************)
EXTENDS Naturals

Items == [text: Nat, negative: Nat, important: Nat, positive: Nat]

Domains == {"news", "litigation"}

(* Does the text contain a signal that something is going wrong?           *)
Adverse(i) == i.negative > 0 \/ i.important > 0

ImpactScore(i, domain) ==
  i.negative + i.important + i.positive
    + (IF domain = "litigation" THEN 4 ELSE 0)

(* Mutant of Polarity: the sign of signed_score decides.                   *)
PolarityBySign(i, domain) ==
  LET against == i.negative + i.important
                   + (IF domain = "litigation" THEN 4 ELSE 0)
  IN  CASE i.positive > against -> "positive"
        [] i.positive < against -> "negative"
        [] OTHER -> "neutral"

Polarity(i, domain) ==
  CASE Adverse(i) \/ domain = "litigation" -> "negative"
    [] ~ Adverse(i) /\ domain # "litigation" /\ i.positive > 0 -> "positive"
    [] OTHER -> "neutral"

Material(i, domain) ==
  /\ ImpactScore(i, domain) >= (IF domain = "news" THEN 5 ELSE 6)
  /\ Polarity(i, domain) # "positive"

SortScore(i, domain) ==
  ImpactScore(i, domain)
    + (IF Polarity(i, domain) = "negative" THEN 6 ELSE 0)

PolarityOrder(i, domain) ==
  CASE Polarity(i, domain) = "negative" -> 0
    [] Polarity(i, domain) = "neutral" -> 1
    [] OTHER -> 2

(* Mutant of Before: ties are left to the order of the input.              *)
BeforeWithoutText(i, j, domain) ==
  \/ Material(i, domain) /\ ~ Material(j, domain)
  \/ /\ Material(i, domain) = Material(j, domain)
     /\ \/ PolarityOrder(i, domain) < PolarityOrder(j, domain)
        \/ /\ PolarityOrder(i, domain) = PolarityOrder(j, domain)
           /\ SortScore(i, domain) > SortScore(j, domain)

(* Mutant of Before: the scores ascend.                                    *)
BeforeAscending(i, j, domain) ==
  \/ SortScore(i, domain) < SortScore(j, domain)
  \/ SortScore(i, domain) = SortScore(j, domain) /\ i.text < j.text

(* The sort key of rank_text_items.                                        *)
Before(i, j, domain) ==
  \/ Material(i, domain) /\ ~ Material(j, domain)
  \/ /\ Material(i, domain) = Material(j, domain)
     /\ \/ PolarityOrder(i, domain) < PolarityOrder(j, domain)
        \/ /\ PolarityOrder(i, domain) = PolarityOrder(j, domain)
           /\ \/ SortScore(i, domain) > SortScore(j, domain)
              \/ /\ SortScore(i, domain) = SortScore(j, domain)
                 /\ i.text < j.text

=============================================================================
