SPECIFICATION Spec
CONSTANT MaxProcesses <- MCMaxProcesses
INVARIANT
    DetachedStayTracked
