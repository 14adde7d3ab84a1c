SPECIFICATION Spec
CONSTANTS
    a = a  b = b  v1 = v1  v2 = v2  c1 = c1  c2 = c2  c3 = c3  c4 = c4
    Tasks = {a, b}
    Pipelines <- MCPipelines
    Makes <- MCMakes
    HashIn = {"mid"}
    HashOut = {"mid", "out"}
    Versions = {v1, v2}
    Size <- SameSize
    MaxWrites = 5
    EditWhile = FALSE
SYMMETRY VersionSymmetry
PROPERTIES
    HitIsRight
    RunMakesEverything
    UnchangedIsReused
