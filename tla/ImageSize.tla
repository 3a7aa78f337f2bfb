------------------------------ MODULE ImageSize ------------------------------
(***************************************************************************)
(* The size an image is asked for: what the settings panel lets the user   *)
(* choose (components/image-settings-panel.tsx) and what                   *)
(* services/api/image.ts sends for it.  A size is "auto", a ratio, or      *)
(* pixels; a quality is the side of a square of as many pixels.            *)
(***************************************************************************)
EXTENDS Naturals
LOCAL INSTANCE FiniteSetsExt

Step     == 16
MinArea  == 655360
MaxArea  == 8294400
MaxEdge  == 3840
MaxRatio == 3
Base     == [low |-> 1024, medium |-> 2048, high |-> 2880]
Qualities == {"auto"} \cup DOMAIN Base

AutoSize         == [form |-> "auto", w |-> 0, h |-> 0]
Ratio(w, h)  == [form |-> "ratio", w |-> w, h |-> h]
Pixels(w, h) == [form |-> "pixels", w |-> w, h |-> h]
Refused      == [form |-> "refused", w |-> 0, h |-> 0]

Longer(w, h)    == IF w >= h THEN w ELSE h
Shorter(w, h)   == IF w >= h THEN h ELSE w
Rounded(x, y)   == (2 * x + y) \div (2 * y)

-----------------------------------------------------------------------------
(* The panel *)

Listed ==
    {AutoSize} \cup {Ratio(r[1], r[2]) : r \in {<<1,1>>, <<3,2>>, <<2,3>>, <<4,3>>, <<3,4>>, <<16,9>>, <<9,16>>}}
           \cup {Pixels(p[1], p[2]) : p \in {<<2048,2048>>, <<2048,1152>>, <<1152,2048>>, <<3840,2160>>, <<2160,3840>>}}

\* alignDimension
Aligned(v, snap) == IF snap THEN Step * ((v + Step - 1) \div Step) ELSE v

\* readSizeDimensions and updateDimension: a side typed over a listed size;
\* a ratio shows the sides it has by default.
Shown(size) ==
    IF size.form = "pixels" THEN size
    ELSE Pixels(Step * Rounded(1024 * size.w, Step * Shorter(size.w, size.h)),
                Step * Rounded(1024 * size.h, Step * Shorter(size.w, size.h)))
Typed(size, side, v, snap) ==
    LET s == Shown(size)
    IN  Pixels(Aligned(IF side = "w" THEN v ELSE s.w, snap), Aligned(IF side = "h" THEN v ELSE s.h, snap))

-----------------------------------------------------------------------------
(* The request *)

\* validateImageSize
Accepted(w, h) ==
    /\ w > 0 /\ h > 0 /\ w % Step = 0 /\ h % Step = 0
    /\ Longer(w, h) <= MaxEdge /\ Longer(w, h) <= MaxRatio * Shorter(w, h)
    /\ w * h \in MinArea..MaxArea

\* resolveSize: the longest long side whose rectangle is not above the
\* quality's pixels, and the short side nearest to the ratio.
Resized(quality, w, h) ==
    LET a     == Longer(w, h)
        b     == Shorter(w, h)
        long  == IF quality = "auto" THEN Step * Rounded(1024 * a, Step * b)
                 ELSE Step * Max({k \in 0..400 : (Step * k) * (Step * k) * b <= Base[quality] * Base[quality] * a})
        short == IF quality = "auto" THEN 1024 ELSE Step * Rounded(long * b, Step * a)
    IN  IF w >= h THEN Pixels(long, short) ELSE Pixels(short, long)

\* resolveRequestSize: what is sent, nothing for "auto".
RequestSize(quality, size) ==
    CASE size.form = "auto" -> AutoSize
      [] size.form = "pixels" -> IF Accepted(size.w, size.h) THEN size ELSE Refused
      [] size.form = "ratio" ->
            LET r == Resized(quality, size.w, size.h)
            IN  IF Longer(size.w, size.h) <= MaxRatio * Shorter(size.w, size.h) /\ Accepted(r.w, r.h)
                THEN r ELSE Refused

-----------------------------------------------------------------------------
(* What a size should be, said without the arithmetic: nothing listed is    *)
(* refused; what is sent is within the provider's limits; typed pixels are  *)
(* sent as they are; a ratio is met within half a step of the short side    *)
(* (of the long side without a quality), with as many pixels as the quality *)
(* names to a part in twenty.                                               *)
SizeHonest(quality, size, sent) ==
    /\ size \in Listed => sent # Refused
    /\ sent.form = "pixels" => Accepted(sent.w, sent.h)
    /\ size.form = "pixels" => sent \in {size, Refused}
    /\ size.form = "ratio" /\ sent # Refused =>
         LET a == Longer(size.w, size.h)
             b == Shorter(size.w, size.h)
             off == 2 * Longer(Longer(sent.w, sent.h) * b, Shorter(sent.w, sent.h) * a)
                      - 2 * Shorter(Longer(sent.w, sent.h) * b, Shorter(sent.w, sent.h) * a)
         IN  /\ size.w >= size.h <=> sent.w >= sent.h
             /\ off <= Step * a
             /\ quality # "auto" =>
                  /\ 20 * (sent.w * sent.h) >= 19 * (Base[quality] * Base[quality])
                  /\ 20 * (sent.w * sent.h) <= 21 * (Base[quality] * Base[quality])
=============================================================================
