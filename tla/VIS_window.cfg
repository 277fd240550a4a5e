SPECIFICATION Spec
CONSTANTS
    Setups <- Usual
    MaxCalls = 3
INVARIANT TypeOK
INVARIANT OpenWhenVisible
PROPERTY DeferredIsAwaited
INVARIANT FreshWhenVisible
PROPERTY SuspensionWaits
