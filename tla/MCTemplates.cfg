SPECIFICATION TemplatesSpec
SYMMETRY Symmetry
CONSTANTS
    Session = {s1, s2}
    Name = {n1, n2}
    Content = {c1, bad}
    Valid = {c1}
    MaxTemplates = 2
    MaxVersions = 3
INVARIANTS
    TemplatesTypeOK
    PublishedIsSnapshot
    OneCurrent
