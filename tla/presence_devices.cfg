SPECIFICATION PresSpec
CONSTANTS
  Devices = {d1, d2}
  Members = {u1}
  Rooms = {room1}
  Nobody = Nobody
  MaxUnsaid = 0
INVARIANTS
  BarbersSeeOnline
