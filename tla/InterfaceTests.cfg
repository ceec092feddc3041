SPECIFICATION Spec
CONSTANTS
    TimestampDomainSize = 1073741824
    MaxCtrnonce = 16777215
    MaxStk = 1999
    MaxReqnonce = 999
INVARIANT AsTheTestsExpect
