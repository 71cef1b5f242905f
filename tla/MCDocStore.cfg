SPECIFICATION StoreSpec
CONSTANTS
  c1 = c1  c2 = c2  c3 = c3  orders = orders
  Client = {c1, c2, c3}
  Name = {orders}
  Seed <- TheSeed
  Capacity = 4
  MaxOpen = 2
  Script <- TheScript
  MaxRequests = 3
INVARIANTS StoreSound PagesTellOneAnswer RepliesInOrder
SYMMETRY Symmetric
CHECK_DEADLOCK FALSE
