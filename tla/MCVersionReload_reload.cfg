SPECIFICATION FairSpec
CONSTANTS
    Builds = {b1, b2}
    Tabs = {t1}
    Pages = {p1}
    Scripts = {x1}
    Bodies = {c1, c2}
    Absent = Absent
    Sites <- MCSites
    None = None
PROPERTIES
    RefreshedWhole
