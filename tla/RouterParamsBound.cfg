SPECIFICATION Spec
CONSTANTS
  MaxRouters = 2
  MaxUse = 0
  MaxRoutes = 2
  Lists <- DispatchLists
  Paths <- DispatchPaths
  Middlewares = {"x", "y"}
  Segments = {"a", "{id}"}
  Methods = {"GET", "POST"}
  Queries <- AllQueries
  Wild = "{id}"
  Fresh = "fresh"
  NoMiddleware = NoMiddleware
INVARIANTS
  ParamsBound
