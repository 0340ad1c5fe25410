CONSTANTS
    web = web
    app = app
    Host = {web, app}
    Port = {1, 2}
    Handler = {h1, h2}
    Config <- MCConfig
    Posts <- MCPosts
    CertFiles = TRUE
    MaxRequests = 4
SPECIFICATION Spec
SYMMETRY Symmetry
INVARIANTS LiveMatchesRows BootsAlone NoSelfConflict
