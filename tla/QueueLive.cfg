SPECIFICATION QueueSpec
PROPERTY EverySettles
