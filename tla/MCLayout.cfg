\* Intervals that divide 3600 below and above one minute, both fixed
\* profiles, over the first three minutes after the epoch.
CONSTANTS
    Intervals = {30, 60, 120}
    Profiles = {"routeviews", "ris"}
    Templates <- MCTemplates
    Window = {0, 30, 60, 90, 120, 150}
SPECIFICATION Spec
INVARIANT PathsDistinct
