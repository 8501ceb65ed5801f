------------------------------ MODULE MCLayout ------------------------------
(***************************************************************************)
(* Every configuration ArchiveConfig::validate accepts, over small sets  *)
(* of intervals, profiles and custom templates, is a state; the naming   *)
(* properties are checked for timestamps of a bounded window.            *)
(***************************************************************************)
EXTENDS Layout, FiniteSets

CONSTANTS Intervals,  \* candidate updates_interval_secs / ribs_interval_secs
          Profiles,   \* candidate layout profiles
          Templates,  \* candidate custom templates [text, tokens]
          Window      \* the timestamps compared

VARIABLE conf

\* One template with every required token, and one per stream with the
\* same required tokens but different text.
MCTemplates ==
    {[text |-> x, tokens |-> {"collector", "yyyymmdd", "hhmm"}] : x \in {"a", "b"}}

Config ==
    [updates : Intervals, ribs : Intervals, profile : Profiles,
     templates : [Streams -> Templates]]

\* ArchiveConfig::validate (intervals, custom templates when custom).
ConfigValid(c) ==
    /\ UpdatesIntervalValid(c.updates)
    /\ RibsIntervalValid(c.ribs, c.updates)
    /\ c.profile = "custom" => \A s \in Streams : TemplateValid(c.templates[s])

Init == conf \in {c \in Config : ConfigValid(c)}
Next == UNCHANGED conf
Spec == Init /\ [][Next]_conf

PathOf(s, t) ==
    RelativePath(conf.profile, conf.templates, s, StreamInterval(s, conf.updates, conf.ribs), t)
BucketOf(s, t) == AlignedEpoch(t, StreamInterval(s, conf.updates, conf.ribs))

\* Spec 3 and 4.1: a segment is the file of one (stream, bucket); two
\* timestamps get the same relative path from segment_paths only when they
\* fall in the same bucket of the same stream, for every configuration
\* validate accepts.  Otherwise the later finalize renames over the other
\* bucket's segment.
PathsDistinct ==
    \A s1, s2 \in Streams, t1, t2 \in Window :
        PathOf(s1, t1) = PathOf(s2, t2) =>
            s1 = s2 /\ BucketOf(s1, t1) = BucketOf(s2, t2)
=============================================================================
