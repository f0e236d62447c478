SPECIFICATION Spec
CONSTANTS
    w1 = w1  w2 = w2
    k1 = k1  k2 = k2  k3 = k3  k4 = k4  k5 = k5  k6 = k6
    e1 = e1  e2 = e2  e3 = e3  e4 = e4  e5 = e5  e6 = e6
    s1 = s1  s2 = s2  la = la  lb = lb  d1 = d1  d2 = d2  d3 = d3
    None = None
    Writers = {w1, w2}
    Keys = {k1, k2, k3, k4, k5, k6}
    Events = {e1, e2, e3, e4, e5, e6}
    Sources = {s1, s2}
    Locators = {la, lb}
    Contents = {d1, d2, d3}
    Commands <- PublicationCommands
    Excluded <- SecondExcludes
    MaxAttempts = 2
    MaxFailures = 1
    MaxRevision = 2
    MaxSequence = 3
INVARIANT TypeOK
INVARIANT VersionChain
INVARIANT AnswerTrue
PROPERTY RejectionIsDefinite
 
