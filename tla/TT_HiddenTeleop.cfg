SPECIFICATION Spec
CONSTANT HoldTicks = 2
INVARIANT NoHiddenTeleop
