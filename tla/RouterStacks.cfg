SPECIFICATION Spec
CONSTANTS
  MaxRouters = 2
  MaxUse = 4
  MaxRoutes = 1
  Lists <- StackLists
  Paths <- StackPaths
  Middlewares = {"x", "y"}
  Segments = {"a", "{id}"}
  Methods = {"GET"}
  Queries <- AllQueries
  Wild = "{id}"
  Fresh = "fresh"
  NoMiddleware = NoMiddleware
INVARIANTS
  Inv
PROPERTIES
  ImplementsScopes
