SPECIFICATION TemplatesSpec
CONSTANTS
    Session = {s1}
    Name = {n1}
    Content = {c1}
    Valid = {c1}
    MaxTemplates = 2
    MaxVersions = 2
INVARIANT
    DraftPublishable
