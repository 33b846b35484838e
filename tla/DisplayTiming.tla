---------------------------- MODULE DisplayTiming ----------------------------
(***************************************************************************)
(* Timings of a display mode: how the Generalized Timing Formula computes   *)
(* one (compute_display_timing.cpp) and what the accelerant asks of one      *)
(* (mode.cpp).  The code computes in floats, this module in fractions: what *)
(* is rounded there (lines, character cells, kHz) is rounded here, and only *)
(* what the width of a float adds to that is left out.                     *)
(***************************************************************************)
EXTENDS Integers

(* A timing: the pixel clock in kHz, then the displayed part, the begin and *)
(* the end of the sync, and the total, of a line and of a picture.         *)
Timing(clock, h, v) == [clock |-> clock, h |-> h, v |-> v]
Ticks(display, sync_start, sync_end, total) ==
  [display |-> display, sync_start |-> sync_start, sync_end |-> sync_end, total |-> total]

Pixels(t) == t.h.total * t.v.total

(* get_refresh_rate() in units of 1/10000 Hz, digits two by two because TLC *)
(* counts in 32 bits.                                                      *)
get_refresh_rate(t) ==
  LET Step(r) == [q |-> r.q * 100 + (r.r * 100) \div Pixels(t), r |-> (r.r * 100) % Pixels(t)]
      hertz   == [q |-> (t.clock * 1000) \div Pixels(t), r |-> (t.clock * 1000) % Pixels(t)]
  IN  Step(Step(hertz)).q

-----------------------------------------------------------------------------
(* rint(n / d): to the nearest whole number, and to an even one between two.*)
Rint(n, d) ==
  LET q == n \div d
      r == 2 * (n % d)
  IN  IF r > d \/ (r = d /\ q % 2 = 1) THEN q + 1 ELSE q

CELL_GRANULARITY == 8
MIN_PORCH        == 1
V_SYNC_WIDTH     == 3
MIN_VSYNC_PLUS_BACK_PORCH == 550   (* microseconds *)

Computable(width, height, refresh) ==
  /\ width \in 320 .. 65536 /\ height \in 200 .. 65536 /\ refresh \in 25 .. 1000

(* A whole picture takes 1 / refresh, of which 550 microseconds at least    *)
(* pass between its last line's front porch and the next picture; the part  *)
(* of a line that is blank falls as lines get longer.                      *)
compute_display_timing(width, height, refresh) ==
  LET w     == Rint(width, CELL_GRANULARITY) * CELL_GRANULARITY
      vsync == Rint(MIN_VSYNC_PLUS_BACK_PORCH * refresh * (height + MIN_PORCH),
                    1000000 - MIN_VSYNC_PLUS_BACK_PORCH * refresh)
      lines == height + vsync + MIN_PORCH
      khz   == lines * refresh                      (* lines per second *)
      blank == Rint(w * (3 * khz - 30000), 2 * CELL_GRANULARITY * (7 * khz + 30000))
                 * 2 * CELL_GRANULARITY
      total == w + blank
      sync  == Rint(total, 100) * CELL_GRANULARITY
      porch == blank \div 2 - sync
  IN  Timing((total * khz) \div 1000,
             Ticks(w, w + porch, w + porch + sync, total),
             Ticks(height, height + MIN_PORCH, height + MIN_PORCH + V_SYNC_WIDTH, lines))

-----------------------------------------------------------------------------
is_mode_sane(t) ==
  /\ t.h.sync_start <= t.h.sync_end /\ t.h.total >= t.h.display
  /\ t.v.sync_start <= t.v.sync_end /\ t.v.total >= t.v.display
  /\ (t.clock * 1000) \div Pixels(t) \in 30 .. 250

(* One below and one above the limits are accepted; the lower limit is      *)
(* unsigned, so that nothing is one below zero but everything below that.  *)
Within(f, min, max) == f <= max + 1 /\ min > 0 /\ f >= min - 1

(* is_mode_supported(): the hook that filters the list, for the ranges that *)
(* detect_crt_ranges() found for the first display, or NoRanges.           *)
NoRanges == [found |-> FALSE]

is_mode_supported(t, display) ==
  /\ is_mode_sane(t)
  /\ display.found =>
       /\ Within(t.clock \div t.h.total, display.min_h, display.max_h)
       /\ Within(t.clock \div (Pixels(t) \div 1000), display.min_v, display.max_v)
=============================================================================
