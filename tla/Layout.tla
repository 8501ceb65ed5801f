------------------------------- MODULE Layout -------------------------------
(***************************************************************************)
(* Segment naming (src/archive/layout.rs) and the configuration checks    *)
(* that constrain it (ArchiveConfig::validate, CustomLayoutTemplates::    *)
(* validate in src/config/mod.rs), as operators over integers.            *)
(*                                                                         *)
(* A relative path is abstracted to what tells two paths apart: the      *)
(* stream's fixed text (profile directory and file prefix, or the custom *)
(* template's text) and the time fields rendered into it.  The collector *)
(* id, the compression extension and the `.{ext}` appended to custom     *)
(* names are the same for every path of one configuration, so they are   *)
(* left out.                                                              *)
(***************************************************************************)
EXTENDS Integers

Streams == {"updates", "ribs"}

\* Mutant of AlignedEpoch: Rust's `%` (sign of the dividend) instead of
\* rem_euclid.
AlignedEpochTruncating(t, i) ==
    t - (IF t >= 0 THEN t % i ELSE -((-t) % i))

\* aligned_epoch: timestamp - timestamp.rem_euclid(interval); TLA+'s %
\* is Euclidean for a positive divisor.
AlignedEpoch(t, i) == t - (t % i)

\* segment_paths: the stream's interval decides the bucket.
StreamInterval(stream, updatesSecs, ribsSecs) ==
    IF stream = "updates" THEN updatesSecs ELSE ribsSecs

\* Utc.timestamp_opt(aligned, 0) rendered as {YYYY.MM}, {YYYYMMDD} and
\* {HHMM}: the UTC day (year, month and day are one calendar date) and
\* the hour and minute of the day; seconds are not rendered.
Day(a) == a \div 86400
HourMinute(a) == <<(a % 86400) \div 3600, (a % 3600) \div 60>>

\* build_custom_relative_path: a template is its text and the tokens it
\* contains; {yyyymmdd} renders the day, {hhmm} the hour and minute
\* ({yyyy}, {mm}, {dd} repeat parts of the day).
CustomName(tpl, a) ==
    <<tpl.text,
      IF "yyyymmdd" \in tpl.tokens THEN Day(a) ELSE "none",
      IF "hhmm" \in tpl.tokens THEN HourMinute(a) ELSE "none">>

\* segment_paths' relative_path for the routeviews, ris and custom
\* profiles.  RouteViews: {collector}/{YYYY.MM}/UPDATES/updates.* and
\* .../RIBS/rib.*; Ris: {collector}/{YYYY.MM}/updates.* and .../bview.*.
RelativePath(profile, templates, stream, interval, t) ==
    LET a == AlignedEpoch(t, interval) IN
    IF profile = "custom"
      THEN CustomName(templates[stream], a)
      ELSE <<<<profile, stream>>, Day(a), HourMinute(a)>>

\* ArchiveConfig::validate on the two intervals.
UpdatesIntervalValid(u) == u # 0 /\ 3600 % u = 0
RibsIntervalValid(r, u) == r # 0 /\ r % u = 0

\* CustomLayoutTemplates::validate on one template.
TemplateValid(tpl) == {"collector", "yyyymmdd", "hhmm"} \subseteq tpl.tokens

-----------------------------------------------------------------------------
(* Reference definitions *)

\* Spec 8 property 1: for every timestamp t and interval i > 0,
\* aligned(t, i) <= t < aligned(t, i) + i and aligned(t, i) is a multiple
\* of i, for the timestamps Ts (negative ones included) and intervals Is.
AlignedInBucket(Ts, Is) ==
    \A t \in Ts, i \in Is :
        LET a == AlignedEpoch(t, i) IN
        /\ a <= t /\ t < a + i
        /\ a % i = 0
=============================================================================
