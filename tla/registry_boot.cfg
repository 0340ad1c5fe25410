CONSTANTS
    web = web
    app = app
    Host = {web, app}
    Port = {1, 2}
    Handler = {h1}
    Config <- MCConfig
    Posts <- MCGoodPosts
    CertFiles = TRUE
    MaxRequests = 2
SPECIFICATION Spec
INVARIANTS BootsAgain
