\* Every small picture, under all options: the scans, the peaks, the zones
\* and two images of a series.
SPECIFICATION Spec
CONSTANTS
    Jobs <- MCJobs
    LumSource = 0
    Limit = 2
    Zone1 = 1
    Zone2 = 4
    MaxSources = 12
    MaxImages = 2
INVARIANTS TypeOK TableMatchesPicture FacingSourcesMerged PeaksSeparated LightConserved
PROPERTIES FreshSourcesAreFar Terminates
