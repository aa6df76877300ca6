SPECIFICATION Spec
CONSTANTS
  d1 = d1
  f1 = f1
  h1 = h1
  h2 = h2
  Platform = Platform
  Usb = Usb
  NoHolder = NoHolder
  Nobody = Nobody
  Device = {d1}
  Caller = {f1, Platform}
  Holder = {h1, h2}
  MaxEvents = 1
INVARIANT StopEndsStream
