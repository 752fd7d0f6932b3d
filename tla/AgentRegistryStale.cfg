SPECIFICATION Spec
CONSTANTS
    A = A
    B = B
    C = C
    NoClass = NoClass
    Types <- MCTypes
    Classes <- MCClasses
    Builtin <- MCBuiltin
    Plugins <- MCPlugins
INVARIANT RefusalIsJustified
