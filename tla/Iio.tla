---------------------------------- MODULE Iio ----------------------------------
(***************************************************************************)
(* The iio sensors of vhost-device-scmi (devices/iio.rs): how a directory  *)
(* of the host's sysfs, whose entries come in any order, makes a sensor,   *)
(* and how a raw value of one of its axes is made into the two words and   *)
(* the decimal exponent that the guest computes with.  A scale is <<m, e>>,*)
(* that is m * 10^e with m of any number of digits; a word has IioWidth    *)
(* bits.  The inexactness of f64 itself is left out, as is the resolution, *)
(* which the guest is told besides.                                        *)
(***************************************************************************)
EXTENDS Integers, Sequences, FiniteSets, SequencesExt

CONSTANTS
  IioFiles,   \* the entries of the directory: [raw, axis, name]
  IioParam,   \* the name on the command line, or ""
  IioUnits,   \* unit_exponent of the channels, UNIT_MAPPING
  IioScales, IioOffsets,
  IioRaw,     \* the raw values
  IioWidth,   \* the bits of a word of a response (32)
  IioPower,   \* the largest power of ten in an i32 (9)
  IioLow, IioHigh \* the exponents that SCMI can express (-16, 15)

ASSUME IioAssumption ==
  /\ IioWidth \in Nat \ {0} /\ IioPower \in Nat /\ IioScales \subseteq (Nat \ {0}) \X Int
  /\ IioLow \in Int /\ IioHigh \in Int /\ IioLow < IioHigh
  /\ \A u \in IioUnits : IioLow <= u /\ u <= IioHigh

VARIABLES
  iio_todo,  \* the entries that read_dir() has still to give
  iio_axes,  \* the axes found, in the order of iio.rs
  iio_scalar, iio_name,
  iio_unit, iio_scale, iio_offset, \* of the channel and its files
  iio_got    \* the last reading: the raw value, the words, the exponent

IioVars == <<iio_todo, iio_axes, iio_scalar, iio_name, iio_unit, iio_scale, iio_offset, iio_got>>

IioNone == <<>>

IioInit ==
  /\ iio_todo = IioFiles /\ iio_axes = <<>> /\ iio_scalar = TRUE /\ iio_name = IioParam
  /\ iio_unit = 0 /\ iio_scale = IioNone /\ iio_offset = 0 /\ iio_got = IioNone

-----------------------------------------------------------------------------
\* register_iio_file(): "name" unless there is a name, "<channel>_raw", and
\* "<channel>_<a>_raw"; axis 0 is that without a letter, and -1 a longer infix.
IioEntry(f) ==
  /\ f \in iio_todo
  /\ iio_todo' = iio_todo \ {f}
  /\ IF f.name # "" THEN /\ iio_name' = IF iio_name = "" THEN f.name ELSE iio_name
                         /\ UNCHANGED <<iio_axes, iio_scalar>>
     ELSE IF f.raw /\ f.axis >= 0
     THEN /\ iio_axes' = Append(iio_axes, f.axis)
          /\ iio_scalar' = (iio_scalar /\ f.axis = 0)
          /\ UNCHANGED iio_name
     ELSE UNCHANGED <<iio_axes, iio_scalar, iio_name>>
  /\ UNCHANGED <<iio_unit, iio_scale, iio_offset, iio_got>>

\* initialize(), after the directory
IioInitialized(axes) == SortSeq(axes, LAMBDA a, b : a < b)

\* The place of the first digit of a scale, and scale.log10() as i8, which cuts
\* towards zero: below one they differ, but for a power of ten.
IioDigits(m)     == CHOOSE d \in 0 .. m : 10 ^ d <= m /\ m < 10 ^ (d + 1)
IioLeading(scale) == scale[2] + IioDigits(scale[1])
IioLog(scale) ==
  LET lead == IioLeading(scale)
  IN  IF lead < 0 /\ scale[1] # 10 ^ IioDigits(scale[1]) THEN lead + 1 ELSE lead

\* custom_exponent_and_resolution(): the exponent is that of the scale, in the
\* bounds that SCMI has for the sum with the unit's.
IioCustom(scale) == IF IioLeading(scale) < 0 THEN IioLog(scale) - 1 ELSE IioLog(scale)

IioExponent(unit, scale) ==
  LET capped == IF IioCustom(scale) > IioHigh - unit THEN IioHigh - unit ELSE IioCustom(scale)
  IN  IF capped < IioLow - unit THEN IioLow - unit ELSE capped

\* The power of ten that the resolution is computed with
IioPowers(scale) == IioCustom(scale) \in -IioPower .. IioPower

\* initialize() after the directory: UNIT_MAPPING, and the files with the scale
\* and the offset.  A power that is no i32 ends a daemon that is built with
\* overflow checks; in one without them the resolution alone is wrong.
IioOpen(unit, scale, offset) ==
  /\ iio_todo = {} /\ iio_axes # <<>> /\ iio_scale = IioNone /\ iio_got = IioNone
  /\ \/ /\ iio_axes' = IioInitialized(iio_axes)
        /\ iio_name' = IF iio_name = "" THEN "iio" ELSE iio_name
        /\ iio_unit' = unit /\ iio_scale' = scale /\ iio_offset' = offset
     \/ /\ ~IioPowers(scale) /\ iio_axes' = <<>>
        /\ UNCHANGED <<iio_name, iio_unit, iio_scale, iio_offset>>
  /\ UNCHANGED <<iio_todo, iio_scalar, iio_got>>

\* Half away from zero, as f64::round()
IioRound(n, d) == IF n >= 0 THEN (2 * n + d) \div (2 * d) ELSE -((2 * (-n) + d) \div (2 * d))

\* The number type of a value, i64
IioFits(v) == -(2 ^ (2 * IioWidth - 1)) <= v /\ v < 2 ^ (2 * IioWidth - 1)
IioSaturated(v) == IF v >= 2 ^ (2 * IioWidth - 1) THEN 2 ^ (2 * IioWidth - 1) - 1
                   ELSE IF v < -(2 ^ (2 * IioWidth - 1)) THEN -(2 ^ (2 * IioWidth - 1)) ELSE v

\* deal_axis_raw_data(): IioNone is an error, of an offset that overflows
IioDeal(raw, unit, scale, offset) ==
  LET custom == IioExponent(unit, scale)
      sum == raw + offset
  IN  IF ~IioFits(sum) THEN IioNone
      ELSE <<IioSaturated(IF custom <= scale[2] THEN sum * scale[1] * 10 ^ (scale[2] - custom)
                          ELSE IioRound(sum * scale[1], 10 ^ (custom - scale[2])))>>

\* reading_get() and reading_update(): (value & 0xFFFFFFFF) as i32, value >> 32
IioWords(v) ==
  LET low == v % 2 ^ IioWidth
  IN  <<IF low >= 2 ^ (IioWidth - 1) THEN low - 2 ^ IioWidth ELSE low, v \div 2 ^ IioWidth>>

\* format_unit(): the exponent in five bits of the unit
IioFormat(e) == e % (IioHigh - IioLow + 1)

\* A reading of an axis, read_axis()
IioRead(raw) ==
  /\ iio_scale # IioNone
  /\ LET v == IioDeal(raw, iio_unit, iio_scale, iio_offset)
     IN  iio_got' = IF v = IioNone THEN <<raw>>
                    ELSE <<raw, IioWords(v[1]), IioFormat(iio_unit + IioExponent(iio_unit, iio_scale))>>
  /\ UNCHANGED <<iio_todo, iio_axes, iio_scalar, iio_name, iio_unit, iio_scale, iio_offset>>

IioNext ==
  \/ \E f \in IioFiles : IioEntry(f)
  \/ \E u \in IioUnits, s \in IioScales, o \in IioOffsets : IioOpen(u, s, o)
  \/ \E raw \in IioRaw : IioRead(raw)

IioSpec == IioInit /\ [][IioNext]_IioVars

-----------------------------------------------------------------------------
\* The sensor that a directory makes does not depend on the order of its
\* entries: the axes are those of the files, in the order of their letters.
IioOrderless ==
  iio_scale # IioNone =>
    LET axes == {f.axis : f \in {g \in IioFiles : g.raw /\ g.axis >= 0}}
    IN  /\ ToSet(iio_axes) = axes /\ \A i \in 1 .. Len(iio_axes) - 1 : iio_axes[i] < iio_axes[i + 1]
        /\ iio_scalar = (axes = {0})

\* The guest's value of a word pair and of a five-bit exponent, both signed
IioGuestValue(w) == w[2] * 2 ^ IioWidth + (w[1] % 2 ^ IioWidth)
IioGuestExponent(f) == IF f > IioHigh THEN f - (IioHigh - IioLow + 1) ELSE f

\* What the guest computes is the physical value, (raw + offset) * scale in the
\* channel's unit, to within half a unit of the exponent that it was told, also
\* where a sign, the border between the words or the range of the exponent is in
\* the way; a value that does not fit in 64 bits is the nearest that does.
IioClose ==
  Len(iio_got) = 3 =>
    LET v == IioGuestValue(iio_got[2])
        e == IioGuestExponent(iio_got[3]) - iio_unit
        most(x, y) == IF x > y THEN x ELSE y
        n == (iio_got[1] + iio_offset) * iio_scale[1] * 10 ^ most(iio_scale[2] - e, 0)
        d == 10 ^ most(e - iio_scale[2], 0)
    IN  IF IioFits(n \div d) THEN 2 * (v * d - n) \in -d .. d ELSE v = IioSaturated(n \div d)

\* That exponent is no coarser than the first digit of the scale, so that two raw
\* values are never one for the guest, unless SCMI has none so low.
IioFine ==
  Len(iio_got) = 3 =>
    LET e == IioGuestExponent(iio_got[3])
    IN  e <= iio_unit + IioLeading(iio_scale) \/ e = IioLow

IioTypeOK == iio_todo \subseteq IioFiles /\ ToSet(iio_axes) \subseteq Nat /\ iio_scalar \in BOOLEAN

\* A sensor does not depend on the order of a directory, and its value is as
\* close as the exponent that goes with it allows (iio.rs).
IioInv == IioTypeOK /\ IioOrderless /\ IioClose /\ IioFine

\* What does not hold: that no digit is lost.  Of a scale with several digits
\* the exponent is that of the first, and the value is rounded to it.
IioExact ==
  Len(iio_got) = 3 =>
    LET e == IioGuestExponent(iio_got[3]) - iio_unit
    IN  e <= iio_scale[2] \/ ((iio_got[1] + iio_offset) * iio_scale[1]) % 10 ^ (e - iio_scale[2]) = 0

=============================================================================
