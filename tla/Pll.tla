--------------------------------- MODULE Pll ---------------------------------
(***************************************************************************)
(* The pixel clock of one connector (radeon_hd/pll.cpp): pll_set() collects *)
(* the flags, lets the BIOS adjust the clock and perhaps fix dividers, and  *)
(* searches for the rest, so that                                          *)
(*                                                                         *)
(*   pixel clock = reference * feedback / (reference divider * post divider) *)
(*                                                                         *)
(* What it finds, and the flags, stay in the connector for the next mode.   *)
(* Clocks are in kHz, all products are below 2^31 (checked by TLC).        *)
(***************************************************************************)
EXTENDS Integers, FiniteSetsExt

CONSTANTS
  Cards,         (* kinds of card and connector, see CardType              *)
  Clocks         (* pixel clocks of modes                                  *)

CardType ==
  [dce : Nat,            (* version of the display engine, times 100        *)
   rv770 : BOOLEAN,      (* that chip or a newer one                        *)
   apu : BOOLEAN,
   device : {"LCD", "TV", "CRT", "DFP"},
   ssReferenceDiv : Nat, (* of the panel's spread spectrum, 0 for none      *)
   bios : SUBSET {"times two", "reference", "post"},
                         (* what AdjustDisplayPll changes and fixes        *)
   referenceFreq : Nat, pllOutMin : Nat, pllOutMax : Nat]

CardAssumption == Cards \subseteq CardType

(* "limited by the number of bits available" *)
minFeedbackDiv == 4
maxFeedbackDiv == 2048
minRefDiv      == 2
maxRefDiv      == 1024
minPostDiv     == 2
maxPostDiv     == 127
MAX_TOLERANCE  == 10

VARIABLES
  card,
  pll,           (* what the connector remembers                           *)
  target         (* the clock last asked of pll_compute(), 0 before        *)

vars == <<card, pll, target>>

Init ==
  /\ card \in Cards /\ target = 0
  /\ pll = [pixelClock |-> 0, flags |-> {}, postDiv |-> 0, referenceDiv |-> 0,
            feedbackDiv |-> 0, feedbackDivFrac |-> 0]

-----------------------------------------------------------------------------
(* pll_setup_flags(): flags are added to those of the mode before.         *)
pll_setup_flags(p) ==
  LET ss == card.device = "LCD" /\ card.ssReferenceDiv > 0 IN
  [p EXCEPT
    !.flags = @
      \cup {IF card.dce >= 302 /\ p.pixelClock > 200000 THEN "PREFER_HIGH_FB_DIV"
            ELSE "PREFER_LOW_REF_DIV"}
      \cup (IF card.rv770 THEN {} ELSE {"PREFER_MINM_OVER_MAXP"})
      \cup (IF card.device = "LCD" THEN {"IS_LCD"} ELSE {})
      \cup (IF ss THEN {"USE_REF_DIV", "USE_FRAC_FB_DIV"} ELSE {})
      \cup (IF card.device = "TV" THEN {"PREFER_CLOSEST_LOWER"} ELSE {})
      \cup (IF card.apu THEN {"USE_FRAC_FB_DIV"} ELSE {}),
    !.referenceDiv = IF ss THEN card.ssReferenceDiv ELSE @]

(* AdjustDisplayPll in the BIOS: it may double the clock of a TMDS link, and *)
(* fix the reference divider, or the post divider so that the VCO is fast   *)
(* enough.  It does so for every mode of a connector or for none.          *)
AdjustedClock(clock) == (IF "times two" \in card.bios THEN 2 ELSE 1) * (clock \div 10) * 10
FixedReference       == IF "reference" \in card.bios THEN 6 ELSE 0
FixedPost(clock)     ==
  IF "post" \in card.bios THEN (card.pllOutMin + clock - 1) \div clock ELSE 0

(* pll_adjust(): the clock is handed over in tens of kHz. *)
pll_adjust(p) ==
  LET clock == AdjustedClock(p.pixelClock)
      post  == FixedPost(clock)
  IN IF card.dce < 300 THEN p
     ELSE [p EXCEPT
       !.pixelClock = clock,
       !.flags = @ \cup (IF FixedReference # 0 THEN {"USE_FRAC_FB_DIV", "USE_REF_DIV"} ELSE {})
                   \cup (IF post # 0 THEN {"USE_FRAC_FB_DIV", "USE_POST_DIV"} ELSE {}),
       !.referenceDiv = IF FixedReference # 0 THEN FixedReference ELSE @,
       !.postDiv      = IF post # 0 THEN post ELSE @]

Clamp(x, lo, hi) == IF x > hi THEN hi ELSE IF x < lo THEN lo ELSE x

(* The limits of a panel are those of the PLL when the BIOS gives none. The *)
(* upper limit is meant where a divider as large as possible is wanted, but *)
(* it is taken for panels only.                                            *)
vco(p) ==
  IF "PREFER_MINM_OVER_MAXP" \notin p.flags /\ "IS_LCD" \in p.flags
    THEN card.pllOutMax ELSE card.pllOutMin

(* pll_compute_post_divider() *)
pll_compute_post_divider(p) ==
  LET up   == "PREFER_MINM_OVER_MAXP" \in p.flags
      rest == vco(p) % p.pixelClock
      div  == vco(p) \div p.pixelClock
              + (IF up /\ rest # 0 THEN 1 ELSE IF ~up /\ rest = 0 THEN -1 ELSE 0)
  IN IF "USE_POST_DIV" \in p.flags THEN p.postDiv ELSE Clamp(div, minPostDiv, maxPostDiv)

(* The feedback divider for a post and a reference divider, to the nearest  *)
(* integer.  The rounding comes after the limits.                          *)
Feedback(post, ref, clock) ==
  LET f == post * ref * clock IN
  Clamp(f \div card.referenceFreq, minFeedbackDiv, maxFeedbackDiv)
    + (IF f % card.referenceFreq >= card.referenceFreq \div 2 THEN 1 ELSE 0)

(* Whether the search stops at a reference divider.                        *)
(* Mutant: the tolerance is taken for one in a thousand.                   *)
NearLoose(post, ref, clock) ==
  ((((card.referenceFreq * Feedback(post, ref, clock)) \div (post * ref)) * 1000) \div clock)
    \in 1000 - MAX_TOLERANCE .. 1000 + MAX_TOLERANCE
Near(post, ref, clock) ==
  LET got == (card.referenceFreq * Feedback(post, ref, clock)) \div (post * ref)
      ppm == (got * 1000) \div clock
  IN ppm \in 1000 - MAX_TOLERANCE \div 10 .. 1000 + MAX_TOLERANCE \div 10

Search(post, first, clock) ==
  LET near == {r \in first .. maxRefDiv : Near(post, r, clock)}
  IN IF near = {} THEN maxRefDiv + 1 ELSE Min(near)

(* The tenths of the feedback divider: hundredths rounded, but for less     *)
(* than five of them, which stay what they are.                            *)
(* Mutant: they are rounded up.                                            *)
TenthsUp(f) ==
  (((100 * (f % card.referenceFreq)) \div card.referenceFreq) + 60) \div 10
Tenths(f) ==
  LET hundredths == (100 * (f % card.referenceFreq)) \div card.referenceFreq
  IN IF hundredths >= 5 THEN (hundredths - 5) \div 10 + 1 ELSE hundredths

(* pll_compute(), before and after the dividers are chosen. *)
Dividers(p) ==
  LET post  == pll_compute_post_divider(p)
      first == IF "USE_REF_DIV" \in p.flags THEN p.referenceDiv ELSE minRefDiv
      f     == post * first * p.pixelClock
      whole == Clamp(f \div card.referenceFreq, minFeedbackDiv, maxFeedbackDiv)
      ref   == Search(post, first, p.pixelClock)
      (* when the search fails the last one tried *)
      last  == IF ref > maxRefDiv THEN maxRefDiv ELSE ref
  IN IF "USE_FRAC_FB_DIV" \in p.flags
       THEN [p EXCEPT !.postDiv = post, !.referenceDiv = first,
                      !.feedbackDiv = IF Tenths(f) >= 10 THEN whole + 1 ELSE whole,
                      !.feedbackDivFrac = IF Tenths(f) >= 10 THEN 0 ELSE Tenths(f)]
       ELSE [p EXCEPT !.postDiv = post, !.referenceDiv = ref,
                      !.feedbackDiv = Feedback(post, last, p.pixelClock),
                      !.feedbackDivFrac = 0]

calculatedClock(p) ==
  (card.referenceFreq * p.feedbackDiv * 10 + card.referenceFreq * p.feedbackDivFrac)
    \div (p.referenceDiv * p.postDiv * 10)

pll_compute(p) == [Dividers(p) EXCEPT !.pixelClock = calculatedClock(Dividers(p))]

(* pll_set(): the flags, the BIOS and the dividers for a mode. *)
pll_set(clock) ==
  LET p == pll_adjust(pll_setup_flags([pll EXCEPT !.pixelClock = clock])) IN
  /\ pll' = pll_compute(p)
  /\ target' = p.pixelClock
  /\ UNCHANGED card

Next == \E clock \in Clocks : pll_set(clock)
Spec == Init /\ [][Next]_vars

-----------------------------------------------------------------------------
Set == target # 0
Searched == Set /\ "USE_FRAC_FB_DIV" \notin pll.flags

TypeOK ==
  /\ card \in Cards /\ target \in Nat
  /\ pll.pixelClock \in Nat /\ pll.feedbackDivFrac \in 0 .. 9

(* Dividers fit their registers, as long as the ones the BIOS fixes do.     *)
InLimits ==
  Set => /\ pll.postDiv \in minPostDiv .. maxPostDiv
         /\ pll.referenceDiv \in minRefDiv .. maxRefDiv
         /\ pll.feedbackDiv \in minFeedbackDiv .. maxFeedbackDiv

Abs(x) == IF x < 0 THEN -x ELSE x

(* The search finds dividers, and the clock is within 2 in 1000 of what was *)
(* asked, the truncations included.                                        *)
SearchIsClose == Searched => Abs(pll.pixelClock - target) * 500 <= target

(* With tenths the clock is less than half a step of the feedback divider   *)
(* off, so no worse than the nearest whole divider.                        *)
TenthsAreClose ==
  Set /\ ~Searched =>
    2 * Abs(pll.pixelClock - target) <= card.referenceFreq \div (pll.referenceDiv * pll.postDiv) + 2

PllInv == TypeOK /\ InLimits /\ SearchIsClose /\ TenthsAreClose

(* "pll in/out limits": the VCO, whose frequency is divided by the post     *)
(* divider, runs between them.                                             *)
VcoInLimits ==
  Set /\ "USE_POST_DIV" \notin pll.flags =>
    target * pll.postDiv \in card.pllOutMin .. card.pllOutMax
=============================================================================
