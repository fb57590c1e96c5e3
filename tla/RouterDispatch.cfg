SPECIFICATION Spec
CONSTANTS
  MaxRouters = 2
  MaxUse = 0
  MaxRoutes = 3
  Lists <- DispatchLists
  Paths <- DispatchPaths
  Middlewares = {"x", "y"}
  Segments = {"a", "{id}"}
  Methods = {"GET", "HEAD"}
  Queries <- AllQueries
  Wild = "{id}"
  Fresh = "fresh"
  NoMiddleware = NoMiddleware
INVARIANTS
  ListedIsReached
PROPERTIES
  ImplementsScopes
