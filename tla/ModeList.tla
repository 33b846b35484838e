------------------------------ MODULE ModeList -------------------------------
(***************************************************************************)
(* The list of modes the accelerant offers: create_display_modes() collects *)
(* what the monitor's EDID names and what the table of the driver knows, one *)
(* source after the other, copies it for each colour space, filters it by    *)
(* what the first display can follow, sorts it, drops what is there twice   *)
(* and puts it into an area.  Memory may end on the way.                   *)
(***************************************************************************)
EXTENDS DisplayTiming, Sequences, SequencesExt, FiniteSetsExt

CONSTANTS
  kBaseModeList,   (* sequence of timings                                   *)
  Spaces,          (* the colour spaces asked for, as numbers               *)
  Infos,           (* EDIDs, and None                                      *)
  Memories         (* how many modes the heap has room for                  *)

VARIABLES
  info,            (* the EDID the caller has, or None                      *)
  display,         (* what gDisplay[0] knows of its monitor's ranges        *)
  memory,
  modes, capacity, (* fModes with fCount, and fCapacity                     *)
  at,              (* the call that is next                                *)
  mode_list        (* the modes in the area, or <<>>                        *)

None   == [edid |-> FALSE]
Plenty == Max(Memories)   (* never ends *)

vars == <<info, display, memory, modes, capacity, at, mode_list>>

CMAP8 == 4
RGB32 == 8

(* virtual_width and virtual_height beside the timing.                      *)
Mode(w, h, t, space) == [w |-> w, h |-> h, t |-> t, space |-> space]
BaseMode(t) == Mode(t.h.display, t.v.display, t, CMAP8)

Abs(x) == IF x < 0 THEN -x ELSE x

(* Mutant: the colour spaces are not compared. *)
compare_size(a, b) ==
  IF a.w # b.w THEN a.w - b.w
  ELSE IF a.h # b.h THEN a.h - b.h
  ELSE (get_refresh_rate(a.t) - get_refresh_rate(b.t)) \div 100

(* The difference in hundredths of a Hertz is cut off towards zero.         *)
compare_mode(a, b) ==
  LET d == get_refresh_rate(a.t) - get_refresh_rate(b.t)
  IN  IF a.w # b.w THEN a.w - b.w
      ELSE IF a.h # b.h THEN a.h - b.h
      ELSE IF a.space # b.space THEN a.space - b.space
      ELSE IF d < 0 THEN -((-d) \div 100) ELSE d \div 100

-----------------------------------------------------------------------------
(* _MakeSpace(): room grows by what is asked for, up to a multiple of 16,   *)
(* and the old modes stay when there is no more.                          *)
Grown(c, n) == ((c + n + 15) \div 16) * 16

(* A list of modes with its room; Add is _AddMode(), whose failure loses    *)
(* that mode alone.                                                       *)
Add(list, mode) ==
  LET c == Grown(list.room, 1)
  IN  IF Len(list.modes) < list.room THEN [list EXCEPT !.modes = Append(@, mode)]
      ELSE IF c <= memory THEN [modes |-> Append(list.modes, mode), room |-> c]
      ELSE list

List == [modes |-> modes, room |-> capacity]
Becomes(list) == modes' = list.modes /\ capacity' = list.room

(* AddModes() of a whole sequence, all of it or nothing.                    *)
AddAll(list, more) ==
  LET c == Grown(list.room, Len(more))
  IN  IF Len(list.modes) + Len(more) <= list.room THEN [list EXCEPT !.modes = @ \o more]
      ELSE IF c <= memory THEN [modes |-> list.modes \o more, room |-> c]
      ELSE list

(* _AddBaseMode(): the first mode of the table within 1.2 percent, or one   *)
(* that is computed.                                                      *)
Near(t, r) == Abs(get_refresh_rate(t) - r.refresh * 10000) < r.refresh * 120
Tweaked(r) == {i \in DOMAIN kBaseModeList :
                 /\ kBaseModeList[i].h.display = r.w /\ kBaseModeList[i].v.display = r.h
                 /\ Near(kBaseModeList[i], r)}

AddBaseMode(list, r) ==
  IF Tweaked(r) # {} THEN Add(list, BaseMode(kBaseModeList[Min(Tweaked(r))]))
  ELSE IF Computable(r.w, r.h, r.refresh)
       THEN Add(list, Mode(r.w, r.h, compute_display_timing(r.w, r.h, r.refresh), CMAP8))
  ELSE list

Request(w, h, f) == [w |-> w, h |-> h, refresh |-> f]

-----------------------------------------------------------------------------
(* What edid_decode() makes of the raw block, as far as modes go.  A block  *)
(* has the established timings it sets, eight pairs of bytes, and four      *)
(* descriptors: a timing, or another kind told by a pixel clock of zero,    *)
(* which only a version that has such descriptors is asked for.            *)
decode_std_timing(raw) ==
  LET h == (raw.h_size + 31) * 8
  IN  Request(h, CASE raw.ratio = 0 -> h
                   [] raw.ratio = 1 -> (h * 3) \div 4
                   [] raw.ratio = 2 -> (h * 4) \div 5
                   [] raw.ratio = 3 -> (h * 9) \div 16,
              raw.refresh + 60)

Descriptors(i, type) ==
  {d \in Range(i.detailed) : d.type = type /\ (type = "ranges" => i.extra)}

(* The last range of a block wins here, the first in detect_crt_ranges().   *)
LastRanges(i) ==
  LET D == {d \in DOMAIN i.detailed : i.detailed[d].type = "ranges" /\ i.extra}
  IN  IF D = {} THEN NoRanges ELSE i.detailed[Max(D)].ranges

DetailedModes(i) ==
  LET timings == SelectSeq(i.detailed, LAMBDA d : d.type = "timing" /\ d.timing.clock > 0)
  IN  [d \in DOMAIN timings |->
         Mode(timings[d].timing.h.display, timings[d].timing.v.display, timings[d].timing, RGB32)]

-----------------------------------------------------------------------------
Init ==
  /\ info \in Infos /\ memory \in Memories
  /\ display \in {NoRanges} \cup (IF info.edid THEN {d.ranges : d \in Descriptors(info, "ranges")} ELSE {})
  /\ modes = <<>> /\ capacity = 0 /\ mode_list = <<>>
  /\ at = IF info.edid THEN "established" ELSE "table"

At(here, next) == at = here /\ at' = next /\ UNCHANGED <<info, display, memory>>

(* The established timings come in the order of the code.                   *)
AddEstablished ==
  /\ At("established", "standard")
  /\ Becomes(FoldLeft(AddBaseMode, List, info.established))
  /\ UNCHANGED mode_list

(* An unused pair of bytes reads as a width of 256.                         *)
AddStandard ==
  /\ At("standard", "detailed")
  /\ LET requests == [i \in DOMAIN info.standard |-> decode_std_timing(info.standard[i])]
     IN  Becomes(FoldLeft(AddBaseMode, List, SelectSeq(requests, LAMBDA r : r.w > 256)))
  /\ UNCHANGED mode_list

AddDetailed ==
  /\ At("detailed", "base")
  /\ Becomes(FoldLeft(Add, List, DetailedModes(info)))
  /\ UNCHANGED mode_list

(* Modes of the table whose size is not there yet, if the monitor follows:  *)
(* as the code computes it, where the horizontal frequency is that of a     *)
(* picture h_total lines high.                                            *)
Follows(t, range) ==
  LET vertical   == (1000 * t.clock) \div Pixels(t)
      horizontal == (t.h.total * vertical) \div 1000
  IN  range.found =>
        /\ horizontal \in range.min_h .. range.max_h
        /\ vertical \in range.min_v .. range.max_v
        /\ t.clock <= range.max_clock * 10000

(* Mutant: the size is not looked for. *)
AddFollowing(list, t) ==
  IF Follows(t, LastRanges(info)) THEN Add(list, BaseMode(t)) ELSE list

AddUnlessThere(list, t) ==
  IF \/ \E m \in Range(list.modes) :
          m.t.h.display = t.h.display /\ m.t.v.display = t.v.display
     \/ ~Follows(t, LastRanges(info))
  THEN list ELSE Add(list, BaseMode(t))

AddBase ==
  /\ At("base", "spaces")
  /\ Becomes(FoldLeft(AddUnlessThere, List, kBaseModeList))
  /\ UNCHANGED mode_list

(* Without an EDID the whole table.                                         *)
AddTable ==
  /\ At("table", "spaces")
  /\ Becomes(AddAll(List, [i \in DOMAIN kBaseModeList |-> BaseMode(kBaseModeList[i])]))
  /\ UNCHANGED mode_list

(* The first space replaces what the modes had, each other one adds a copy. *)
(* The code stops at the first copy without room; room never comes back, so *)
(* no later one would find any.  Without room for the base nothing happens. *)
InSpace(list, space) == [i \in DOMAIN list |-> [list[i] EXCEPT !.space = space]]
Copied(list, space)  == AddAll(list, InSpace(modes, space))

CreateColorSpaces ==
  /\ At("spaces", "filter")
  /\ \/ Becomes(FoldLeft(Copied, [List EXCEPT !.modes = InSpace(modes, Head(Spaces))], Tail(Spaces)))
     \/ memory # Plenty /\ Becomes(List)
  /\ UNCHANGED mode_list

Filter ==
  /\ At("filter", "clean")
  /\ modes' = SelectSeq(modes, LAMBDA m : is_mode_supported(m.t, display))
  /\ UNCHANGED <<capacity, mode_list>>

(* qsort() leaves equal modes in any order, here the first or the last one  *)
(* in front; a mode goes if it equals the one before it.                   *)
Sorted(list, stable) ==
  LET Before(i, j) ==
        LET c == compare_mode(list[i], list[j])
        IN  c < 0 \/ (c = 0 /\ IF stable THEN i < j ELSE i > j)
      order == SortSeq([i \in DOMAIN list |-> i], Before)
  IN  [i \in DOMAIN list |-> list[order[i]]]

WithoutDuplicates(list) ==
  LET kept == SelectSeq([i \in DOMAIN list |-> i],
                        LAMBDA i : i = 1 \/ compare_mode(list[i], list[i - 1]) # 0)
  IN  [i \in DOMAIN kept |-> list[kept[i]]]

Clean ==
  /\ At("clean", "area")
  /\ \E stable \in BOOLEAN : modes' = WithoutDuplicates(Sorted(modes, stable))
  /\ UNCHANGED <<capacity, mode_list>>

CreateArea ==
  /\ \/ At("area", "done") /\ mode_list' = modes
     \/ At("area", "failed") /\ UNCHANGED mode_list
  /\ modes' = <<>> /\ capacity' = 0

Used == at \in {"done", "failed"} /\ UNCHANGED vars

Next ==
  \/ AddEstablished \/ AddStandard \/ AddDetailed \/ AddBase \/ AddTable
  \/ CreateColorSpaces \/ Filter \/ Clean \/ CreateArea \/ Used

-----------------------------------------------------------------------------
(* What the EDID asks for, and the timings there are for a request.         *)
Asked ==
  IF info.edid
  THEN Range(info.established)
         \cup {r \in {decode_std_timing(raw) : raw \in Range(info.standard)} : r.w > 256}
  ELSE {}
Detailed == IF info.edid THEN Range(DetailedModes(info)) ELSE {}
Timings(r) ==
  {t \in Range(kBaseModeList) : t.h.display = r.w /\ t.v.display = r.h /\ Near(t, r)}
    \cup (IF Computable(r.w, r.h, r.refresh) THEN {compute_display_timing(r.w, r.h, r.refresh)} ELSE {})

Offered    == Range(mode_list)
Accepts(t) == is_mode_supported(t, display)

(* The list is in order and nothing is in it twice, whatever the sort does  *)
(* with equals (create_display_modes.cpp:375).                             *)
StrictlySorted ==
  \A i \in 1 .. Len(mode_list) - 1 : compare_mode(mode_list[i], mode_list[i + 1]) < 0

(* Whatever the source of a mode: its lines and pictures come as often as   *)
(* the monitor allows, and a computed one leaves the beam the time the      *)
(* formula promises between two pictures (compute_display_timing.cpp).      *)
Shown ==
  /\ display.found => \A m \in Offered :
       /\ m.t.clock \in (display.min_h - 1) * m.t.h.total .. (display.max_h + 2) * m.t.h.total
       /\ get_refresh_rate(m.t) \in (display.min_v - 1) * 10000 .. (display.max_v + 2) * 10000
  /\ \A m \in Range(modes), r \in Asked :
       m.t = compute_display_timing(r.w, r.h, r.refresh) =>
         /\ m.t.clock * 1000 \in r.refresh * Pixels(m.t) - 1000 .. r.refresh * Pixels(m.t)
         /\ m.t.h.sync_start < m.t.h.sync_end /\ m.t.h.sync_end < m.t.h.total
         /\ (m.t.v.total - m.t.v.sync_start) * 1000000
              >= (MIN_VSYNC_PLUS_BACK_PORCH - 30) * m.t.v.total * r.refresh

(* Every mode the EDID asks for is offered in every colour space, unless    *)
(* the monitor would not follow or memory ended.                           *)
EdidHonoured ==
  at = "done" /\ memory = Plenty => \A s \in Range(Spaces) :
    /\ \A r \in Asked : Timings(r) # {} /\ (\A t \in Timings(r) : Accepts(t)) =>
         \E m \in Offered : m.w = r.w /\ m.h = r.h /\ m.space = s /\ Near(m.t, r)
    /\ \A d \in Detailed : Accepts(d.t) =>
         \E m \in Offered : compare_mode(m, [d EXCEPT !.space = s]) = 0

(* Where the EDID names a size, the table adds no other rate to it, with    *)
(* little memory neither; the sizes it does not name are all there.         *)
TableCompletes ==
  at = "done" =>
    /\ \A m \in Offered :
         (\E r \in Asked : r.w = m.w /\ r.h = m.h) \/ (\E d \in Detailed : d.w = m.w /\ d.h = m.h)
           => (\E r \in Asked : m.w = r.w /\ m.h = r.h /\ Near(m.t, r))
              \/ (\E d \in Detailed : m.t = d.t)
    /\ memory = Plenty /\ (info.edid => ~LastRanges(info).found) =>
         \A t \in Range(kBaseModeList) : \A s \in Range(Spaces) :
           (\E m \in Offered : m.w = t.h.display /\ m.h = t.v.display /\ m.space = s)
             \/ (\E r \in Asked : r.w = t.h.display /\ r.h = t.v.display)
             \/ (\E d \in Detailed : d.w = t.h.display /\ d.h = t.v.display)
             \/ ~Accepts(t)

TypeOK ==
  /\ capacity <= memory /\ Len(modes) <= capacity
  /\ at \in {"established", "standard", "detailed", "base", "table", "spaces",
             "filter", "clean", "area", "done", "failed"}
  /\ at # "done" => mode_list = <<>>

ModesInv == TypeOK /\ StrictlySorted /\ Shown /\ EdidHonoured /\ TableCompletes
=============================================================================
